---- MODULE Spec2Model ----
(***************************************************************************)
(* A model of the Structured Text parser (STParser) and of the analysis    *)
(* service (AnalysisService) of st-debugger.                               *)
(*                                                                         *)
(* Source texts are TLA+ strings; a character is a string of length one.   *)
(* Every regular expression of the source is translated into an operator   *)
(* that computes the match the JavaScript engine returns (leftmost start,  *)
(* greedy and lazy quantifiers in their backtracking order).               *)
(***************************************************************************)
EXTENDS Integers, Sequences, FiniteSets, TLC

(***************************************************************************)
(* JavaScript string primitives                                            *)
(***************************************************************************)

\* The value of an absent optional string field (JavaScript undefined).
UNDEF == "<undefined>"

Min(a, b) == IF a <= b THEN a ELSE b
Max(a, b) == IF a >= b THEN a ELSE b

\* s[i] (1-based); the empty string outside the text.
Ch(s, i) == IF i >= 1 /\ i <= Len(s) THEN SubSeq(s, i, i) ELSE ""

\* s.substring(i-1, j) with 1-based inclusive bounds, clipped to the text.
Sub(s, i, j) == SubSeq(s, Max(i, 1), Min(j, Len(s)))

\* p occurs in s at index i.
At(s, i, p) == i >= 1 /\ i + Len(p) - 1 <= Len(s) /\ SubSeq(s, i, i + Len(p) - 1) = p

StartsWith(s, p) == At(s, 1, p)
EndsWith(s, p) == At(s, Len(s) - Len(p) + 1, p)

\* The least element of a set of indices, or d when the set is empty.
FirstOf(S, d) == IF S = {} THEN d ELSE CHOOSE k \in S : \A m \in S : k <= m

\* The greatest element of a set of indices, or d when the set is empty.
LastOf(S, d) == IF S = {} THEN d ELSE CHOOSE k \in S : \A m \in S : m <= k

\* First index >= i at which p occurs in s, 0 when there is none.
IndexOf(s, p, i) == FirstOf({k \in Max(i, 1)..(Len(s) - Len(p) + 1) : At(s, k, p)}, 0)

Includes(s, p) == IndexOf(s, p, 1) # 0

\* s.split(sep) for a non-empty separator.
RECURSIVE Split(_, _)
Split(s, sep) ==
  LET k == IndexOf(s, sep, 1) IN
  IF k = 0 THEN <<s>>
  ELSE <<SubSeq(s, 1, k - 1)>> \o Split(SubSeq(s, k + Len(sep), Len(s)), sep)

\* parts.join(sep)
RECURSIVE Join(_, _)
Join(parts, sep) ==
  IF Len(parts) = 0 THEN ""
  ELSE IF Len(parts) = 1 THEN parts[1]
  ELSE parts[1] \o sep \o Join(Tail(parts), sep)

LowerLetters == "abcdefghijklmnopqrstuvwxyz"
UpperLetters == "ABCDEFGHIJKLMNOPQRSTUVWXYZ"
DigitChars == {"0", "1", "2", "3", "4", "5", "6", "7", "8", "9"}
LowerSet == {Ch(LowerLetters, i) : i \in 1..26}
UpperSet == {Ch(UpperLetters, i) : i \in 1..26}

\* The regular-expression classes \s, \d and \w.
SpaceChars == {" ", "\t", "\n", "\r"}
IsSpace(c) == c \in SpaceChars
IsDigit(c) == c \in DigitChars
WordChars == LowerSet \cup UpperSet \cup DigitChars \cup {"_"}
IsWord(c) == c \in WordChars
LineTerminators == {"\n", "\r"}

UpperOf == [c \in LowerSet |-> Ch(UpperLetters, CHOOSE i \in 1..26 : Ch(LowerLetters, i) = c)]
UpChar(c) == IF c \in LowerSet THEN UpperOf[c] ELSE c

\* s.toUpperCase(), computed by halves.
RECURSIVE ToUpperCase(_)
ToUpperCase(s) ==
  IF Len(s) = 0 THEN ""
  ELSE IF Len(s) = 1 THEN UpChar(s)
  ELSE LET h == Len(s) \div 2 IN
       ToUpperCase(SubSeq(s, 1, h)) \o ToUpperCase(SubSeq(s, h + 1, Len(s)))

\* Index of the first character at or after i that is not white space (Len+1 if none).
SkipSpace(s, i) == FirstOf({k \in i..Len(s) : ~IsSpace(Ch(s, k))}, Len(s) + 1)

\* Index of the last character at or before j that is not white space (0 if none).
SkipSpaceBack(s, j) == LastOf({k \in 1..j : ~IsSpace(Ch(s, k))}, 0)

\* s.trim()
Trim(s) ==
  LET a == SkipSpace(s, 1)
      b == SkipSpaceBack(s, Len(s))
  IN  IF a > b THEN "" ELSE SubSeq(s, a, b)

\* Index after the maximal run of \w characters that starts at i.
SkipWord(s, i) == FirstOf({k \in i..Len(s) : ~IsWord(Ch(s, k))}, Len(s) + 1)

\* Index after the maximal run of \d characters that starts at i.
SkipDigits(s, i) == FirstOf({k \in i..Len(s) : ~IsDigit(Ch(s, k))}, Len(s) + 1)

\* p occurs in s at index i, letter case ignored (the i flag).
AtI(s, i, p) == i >= 1 /\ i + Len(p) - 1 <= Len(s) /\ ToUpperCase(SubSeq(s, i, i + Len(p) - 1)) = p

(***************************************************************************)
(* STParser.preprocessContent                                              *)
(***************************************************************************)

\* Index of the first line terminator at or after i (Len+1 if none): where .* stops.
LineEnd(s, i) == FirstOf({k \in i..Len(s) : Ch(s, k) \in LineTerminators}, Len(s) + 1)

\* processed.replace(/\/\/.*$/gm, '')
RECURSIVE RemoveLineComments(_, _)
RemoveLineComments(s, i) ==
  LET k == IndexOf(s, "//", i) IN
  IF k = 0 THEN Sub(s, i, Len(s))
  ELSE Sub(s, i, k - 1) \o RemoveLineComments(s, LineEnd(s, k))

\* processed.replace(/\(\*[\s\S]*?\*\)/g, '')
RECURSIVE RemoveBlockComments(_, _)
RemoveBlockComments(s, i) ==
  LET open  == IndexOf(s, "(*", i)
      close == IF open = 0 THEN 0 ELSE IndexOf(s, "*)", open + 2)
  IN  IF close = 0 THEN Sub(s, i, Len(s))
      ELSE Sub(s, i, open - 1) \o RemoveBlockComments(s, close + 2)

\* processed.replace(/\r\n/g, '\n')
RECURSIVE NormalizeLineEndings(_, _)
NormalizeLineEndings(s, i) ==
  LET k == IndexOf(s, "\r\n", i) IN
  IF k = 0 THEN Sub(s, i, Len(s))
  ELSE Sub(s, i, k - 1) \o "\n" \o NormalizeLineEndings(s, k + 2)

\* Indices of the line feeds among s[i..j].
NewlinesIn(s, i, j) == {k \in i..j : Ch(s, k) = "\n"}

\* processed.replace(/\n\s*\n\s*\n/g, '\n\n'): at a line feed followed by a run of
\* white space holding two more line feeds, the match ends at the run's last line feed.
BlankRunAt(s, k) ==
  Ch(s, k) = "\n" /\ Cardinality(NewlinesIn(s, k + 1, SkipSpace(s, k + 1) - 1)) >= 2

RECURSIVE CollapseBlankLines(_, _)
CollapseBlankLines(s, i) ==
  LET k == FirstOf({j \in i..Len(s) : BlankRunAt(s, j)}, 0) IN
  IF k = 0 THEN Sub(s, i, Len(s))
  ELSE Sub(s, i, k - 1) \o "\n\n"
       \o CollapseBlankLines(s, LastOf(NewlinesIn(s, k + 1, SkipSpace(s, k + 1) - 1), k) + 1)

preprocessContent(content) ==
  LET p1 == RemoveLineComments(content, 1)
      p2 == RemoveBlockComments(p1, 1)
      p3 == NormalizeLineEndings(p2, 1)
      p4 == CollapseBlankLines(p3, 1)
  IN  Trim(p4)

(***************************************************************************)
(* STParser.extractHeader                                                  *)
(***************************************************************************)

\* ST_PATTERNS.POU_DECLARATION = /(PROGRAM|FUNCTION_BLOCK|FUNCTION)\s+(\w+)/i
POU_KEYWORDS == <<"PROGRAM", "FUNCTION_BLOCK", "FUNCTION">>

\* The pattern without the white space between the keyword and the name.
PouMatchAtUnspaced(s, u, p, kw) ==
  /\ At(u, p, kw)
  /\ IsWord(Ch(s, SkipSpace(s, p + Len(kw))))

\* The declaration pattern matches at index p of s with keyword kw (u is s in upper case).
PouMatchAt(s, u, p, kw) ==
  /\ At(u, p, kw)
  /\ IsSpace(Ch(s, p + Len(kw)))
  /\ IsWord(Ch(s, SkipSpace(s, p + Len(kw))))

\* content.match(ST_PATTERNS.POU_DECLARATION): the leftmost match, or found = FALSE.
PouMatch(s) ==
  LET u    == ToUpperCase(s)
      hits == {p \in 1..Len(s) : \E k \in 1..3 : PouMatchAt(s, u, p, POU_KEYWORDS[k])}
  IN  IF hits = {} THEN [found |-> FALSE, index |-> 0, type |-> "", name |-> ""]
      ELSE LET p  == FirstOf(hits, 0)
               k  == FirstOf({j \in 1..3 : PouMatchAt(s, u, p, POU_KEYWORDS[j])}, 0)
               q  == SkipSpace(s, p + Len(POU_KEYWORDS[k]))
           IN  [found |-> TRUE, index |-> p, type |-> POU_KEYWORDS[k],
                name |-> Sub(s, q, SkipWord(s, q) - 1)]

\* The regular expression /^\/\/|\/\*|\*\/\s*$/g matches at index k of t.
MarkAt(t, k) ==
  \/ k = 1 /\ At(t, 1, "//")
  \/ At(t, k, "/*")
  \/ At(t, k, "*/") /\ SkipSpace(t, k + 2) > Len(t)

\* trimmed.replace(/^\/\/|\/\*|\*\/\s*$/g, '')
RECURSIVE StripCommentMarks(_, _)
StripCommentMarks(t, i) ==
  LET k == FirstOf({j \in i..Len(t) : MarkAt(t, j)}, 0) IN
  IF k = 0 THEN Sub(t, i, Len(t))
  ELSE IF At(t, k, "*/") THEN Sub(t, i, k - 1)
  ELSE Sub(t, i, k - 1) \o StripCommentMarks(t, k + 2)

\* The loop of extractDescriptionFromComments over lines[1..n] taken last to first;
\* the comments found are kept in source order.
RECURSIVE CollectDescriptions(_, _)
CollectDescriptions(lines, n) ==
  IF n = 0 THEN <<>>
  ELSE LET trimmed == Trim(lines[n]) IN
       IF StartsWith(trimmed, "//") \/ StartsWith(trimmed, "(*")
       THEN LET comment == Trim(StripCommentMarks(trimmed, 1)) IN
            CollectDescriptions(lines, n - 1) \o (IF comment # "" THEN <<comment>> ELSE <<>>)
       ELSE IF trimmed # "" THEN <<>>
       ELSE CollectDescriptions(lines, n - 1)

extractDescriptionFromComments(lines) ==
  LET descriptions == CollectDescriptions(lines, Len(lines)) IN
  IF Len(descriptions) > 0 THEN Join(descriptions, " ") ELSE UNDEF

\* The header, or found = FALSE for the null the source returns.
extractHeader(s) ==
  LET m == PouMatch(s) IN
  IF ~m.found THEN [found |-> FALSE, type |-> "", name |-> "", description |-> UNDEF]
  ELSE [found |-> TRUE, type |-> m.type, name |-> m.name,
        description |-> extractDescriptionFromComments(Split(Sub(s, 1, m.index - 1), "\n"))]

(***************************************************************************)
(* STParser.extractVariables                                               *)
(***************************************************************************)

\* The values parseInitialValue returns. A number is num / 10^scale.
UndefinedValue == [kind |-> "undefined", num |-> 0, scale |-> 0, str |-> ""]
BoolValue(b) == [kind |-> "boolean", num |-> IF b THEN 1 ELSE 0, scale |-> 0, str |-> ""]
StringValue(t) == [kind |-> "string", num |-> 0, scale |-> 0, str |-> t]

DigitValue(c) == CHOOSE d \in 0..9 : Ch("0123456789", d + 1) = c

\* The number written by a string of decimal digits.
RECURSIVE DigitsToNat(_)
DigitsToNat(d) ==
  IF Len(d) = 0 THEN 0
  ELSE 10 * DigitsToNat(SubSeq(d, 1, Len(d) - 1)) + DigitValue(Ch(d, Len(d)))

\* /^-?\d+$/.test(value)
IsIntegerToken(value) ==
  LET a == IF StartsWith(value, "-") THEN 2 ELSE 1 IN
  a <= Len(value) /\ SkipDigits(value, a) > Len(value)

\* /^-?\d+\.\d+$/.test(value)
IsDecimalToken(value) ==
  LET a   == IF StartsWith(value, "-") THEN 2 ELSE 1
      dot == SkipDigits(value, a)
  IN  dot > a /\ Ch(value, dot) = "." /\ dot < Len(value) /\ SkipDigits(value, dot + 1) > Len(value)

\* A fraction's digits without its trailing zeros.
FractionDigits(f) == Sub(f, 1, LastOf({k \in 1..Len(f) : Ch(f, k) # "0"}, 0))

\* parseInt(value, 10) of an integer token
ParseIntToken(value) ==
  LET neg == StartsWith(value, "-")
      n   == DigitsToNat(Sub(value, IF neg THEN 2 ELSE 1, Len(value)))
  IN  [kind |-> "number", num |-> IF neg THEN 0 - n ELSE n, scale |-> 0, str |-> ""]

\* parseFloat(value) of a decimal token
ParseFloatToken(value) ==
  LET neg  == StartsWith(value, "-")
      a    == IF neg THEN 2 ELSE 1
      dot  == SkipDigits(value, a)
      frac == FractionDigits(Sub(value, dot + 1, Len(value)))
      n    == DigitsToNat(Sub(value, a, dot - 1) \o frac)
  IN  [kind |-> "number", num |-> IF neg THEN 0 - n ELSE n, scale |-> Len(frac), str |-> ""]

\* A classification that keeps the quotes of a quoted token.
parseInitialValueQuoted(value) ==
  IF value = "TRUE" \/ value = "FALSE" THEN BoolValue(value = "TRUE")
  ELSE IF IsIntegerToken(value) THEN ParseIntToken(value)
  ELSE IF IsDecimalToken(value) THEN ParseFloatToken(value)
  ELSE StringValue(value)

parseInitialValue(value) ==
  IF value = "TRUE" \/ value = "FALSE" THEN BoolValue(value = "TRUE")
  ELSE IF IsIntegerToken(value) THEN ParseIntToken(value)
  ELSE IF IsDecimalToken(value) THEN ParseFloatToken(value)
  ELSE IF StartsWith(value, "'") /\ EndsWith(value, "'") THEN StringValue(Sub(value, 2, Len(value) - 1))
  ELSE IF StartsWith(value, "\"") /\ EndsWith(value, "\"") THEN StringValue(Sub(value, 2, Len(value) - 1))
  ELSE StringValue(value)

\* The end of the declaration pattern, \s*;?\s*(?:\/\/\s*(.*))?$, matched from index x.
DeclTail(line, x) ==
  LET a == SkipSpace(line, x)
      b == IF Ch(line, a) = ";" THEN SkipSpace(line, a + 1) ELSE a
  IN  IF b > Len(line) THEN [ok |-> TRUE, desc |-> UNDEF]
      ELSE IF At(line, b, "//") /\ LineEnd(line, b) > Len(line)
           THEN [ok |-> TRUE, desc |-> Sub(line, SkipSpace(line, b + 2), Len(line))]
           ELSE [ok |-> FALSE, desc |-> UNDEF]

\* The greatest pair of a set of <<start, end>> pairs: the alternative a greedy
\* quantifier followed by a greedy quantifier tries first.
BestPair(S) ==
  CHOOSE p \in S : \A q \in S : q[1] < p[1] \/ (q[1] = p[1] /\ q[2] <= p[2])

Bounds(p) == [ok |-> TRUE, from |-> p[1], to |-> p[2]]

\* The initializer (?:\s*:\s*=\s*([^;]+))? matched from index y and followed by the
\* tail: the bounds of group 3, or ok = FALSE.
DeclInit(line, y) ==
  LET y1 == SkipSpace(line, y)
      y2 == SkipSpace(line, y1 + 1)
      y3 == SkipSpace(line, y2 + 1)
      cand == IF Ch(line, y1) = ":" /\ Ch(line, y2) = "="
              THEN {<<gs, ge>> \in ((y2 + 1)..y3) \X ((y2 + 1)..Len(line)) :
                      /\ gs <= ge
                      /\ \A k \in gs..ge : Ch(line, k) # ";"
                      /\ DeclTail(line, ge + 1).ok}
              ELSE {}
  IN  IF cand = {} THEN [ok |-> FALSE, from |-> 0, to |-> 0] ELSE Bounds(BestPair(cand))

NoVarMatch == [found |-> FALSE, g1 |-> "", g2 |-> "", g3 |-> UNDEF, g4 |-> UNDEF]

\* The groups of the declaration pattern when the name ends before n1, group 2 is
\* line[g[1]..g[2]] and init is the initializer matched after it.
VarGroups(line, n1, g, init) ==
  [found |-> TRUE,
   g1 |-> Sub(line, 1, n1 - 1),
   g2 |-> Sub(line, g[1], g[2]),
   g3 |-> IF init.ok THEN Sub(line, init.from, init.to) ELSE UNDEF,
   g4 |-> DeclTail(line, (IF init.ok THEN init.to ELSE g[2]) + 1).desc]

\* The candidates for group 2, [^:;]+, after the colon at c1.
TypeCandidates(line, c1) ==
  {g \in ((c1 + 1)..SkipSpace(line, c1 + 1)) \X ((c1 + 1)..Len(line)) :
     /\ g[1] <= g[2]
     /\ \A k \in g[1]..g[2] : Ch(line, k) \notin {":", ";"}
     /\ (DeclInit(line, g[2] + 1).ok \/ DeclTail(line, g[2] + 1).ok)}

VarMatchOf(line, n1, cand) ==
  IF cand = {} THEN NoVarMatch
  ELSE VarGroups(line, n1, BestPair(cand), DeclInit(line, BestPair(cand)[2] + 1))

VarMatchFrom(line, n1, c1) ==
  IF n1 > 1 /\ Ch(line, c1) = ":" THEN VarMatchOf(line, n1, TypeCandidates(line, c1))
  ELSE NoVarMatch

\* line.match(/^(\w+)\s*:\s*([^:;]+)(?:\s*:\s*=\s*([^;]+))?\s*;?\s*(?:\/\/\s*(.*))?$/)
VarMatch(line) == VarMatchFrom(line, SkipWord(line, 1), SkipSpace(line, SkipWord(line, 1)))

\* lines.slice(Math.max(0, i - 2), i).some(l => l.trim().toUpperCase().includes('VAR CONSTANT'))
ConstantMarkerAbove(lines, i) ==
  \E j \in Max(1, i - 2)..(i - 1) : Includes(ToUpperCase(Trim(lines[j])), "VAR CONSTANT")

\* The variable parseVariableSection records for a match m of lines[i].
VariableOf(m, lines, i, scope) ==
  [name         |-> m.g1,
   dataType     |-> Trim(m.g2),
   scope        |-> scope,
   isConstant   |-> ConstantMarkerAbove(lines, i),
   initialValue |-> IF m.g3 # UNDEF /\ m.g3 # ""
                    THEN parseInitialValue(Trim(m.g3)) ELSE UndefinedValue,
   description  |-> IF m.g4 = UNDEF THEN UNDEF ELSE Trim(m.g4)]

Recorded(m, lines, i, scope) ==
  IF m.found THEN <<VariableOf(m, lines, i, scope)>> ELSE <<>>

\* One turn of parseVariableSection's loop on the trimmed line.
SectionLine(line, lines, i, scope) ==
  IF line = "" \/ StartsWith(line, "//") \/ StartsWith(line, "(*") THEN <<>>
  ELSE Recorded(VarMatch(line), lines, i, scope)

\* The loop of parseVariableSection from line i on.
RECURSIVE ParseSectionLines(_, _, _)
ParseSectionLines(lines, i, scope) ==
  IF i > Len(lines) THEN <<>>
  ELSE SectionLine(Trim(lines[i]), lines, i, scope) \o ParseSectionLines(lines, i + 1, scope)

parseVariableSection(sectionContent, scope) ==
  ParseSectionLines(Split(sectionContent, "\n"), 1, scope)

mapVarSectionToScope(sectionType) ==
  IF sectionType = "VAR" THEN "LOCAL"
  ELSE IF sectionType = "VAR_INPUT" THEN "INPUT"
  ELSE IF sectionType = "VAR_OUTPUT" THEN "OUTPUT"
  ELSE IF sectionType = "VAR_TEMP" THEN "TEMP"
  ELSE IF sectionType = "VAR_GLOBAL" THEN "GLOBAL"
  ELSE "LOCAL"

VAR_SUFFIXES == <<"_INPUT", "_OUTPUT", "_TEMP", "_GLOBAL">>

\* Group 1 of the section pattern at index p: VAR with the suffix that follows it, if any.
SectionKeywordAt(u, p) ==
  LET k == FirstOf({j \in 1..4 : At(u, p + 3, VAR_SUFFIXES[j])}, 0) IN
  IF k = 0 THEN "VAR" ELSE "VAR" \o VAR_SUFFIXES[k]

\* /(VAR(?:_INPUT|_OUTPUT|_TEMP|_GLOBAL)?)\s*([\s\S]*?)\s*END_VAR/gi matches at index p.
SectionMatchAt(s, u, p) ==
  At(u, p, "VAR") /\ IndexOf(u, "END_VAR", SkipSpace(s, p + Len(SectionKeywordAt(u, p)))) # 0

\* The while loop of extractVariables with the pattern's lastIndex at from - 1.
RECURSIVE ExtractSections(_, _, _)
ExtractSections(s, u, from) ==
  LET p == FirstOf({k \in from..Len(s) : SectionMatchAt(s, u, k)}, 0) IN
  IF p = 0 THEN <<>>
  ELSE LET sectionType == SectionKeywordAt(u, p)
           q == SkipSpace(s, p + Len(sectionType))
           e == IndexOf(u, "END_VAR", q)
           sectionContent == Sub(s, q, Max(q - 1, SkipSpaceBack(s, e - 1)))
       IN  parseVariableSection(sectionContent, mapVarSectionToScope(sectionType))
           \o ExtractSections(s, u, e + 7)

extractVariables(s) == ExtractSections(s, ToUpperCase(s), 1)

(***************************************************************************)
(* STParser.extractBody                                                    *)
(***************************************************************************)

\* lines[j].trim() && !lines[j].trim().startsWith('//')
IsBodyCandidate(lines, j) == Trim(lines[j]) # "" /\ ~StartsWith(Trim(lines[j]), "//")

\* line.startsWith('END_VAR') || line === 'VAR' for the trimmed upper-case line i
IsVarBoundary(lines, i) ==
  LET line == ToUpperCase(Trim(lines[i])) IN StartsWith(line, "END_VAR") \/ line = "VAR"

\* findBodyStartIndex, as a 1-based index into lines (the source's result plus one).
findBodyStartIndex(lines) ==
  LET n == Len(lines)
      I == {i \in 1..n : IsVarBoundary(lines, i) /\ \E j \in (i + 1)..n : IsBodyCandidate(lines, j)}
  IN  IF I = {} THEN 1
      ELSE FirstOf({j \in (FirstOf(I, 0) + 1)..n : IsBodyCandidate(lines, j)}, 1)

\* findBodyEndIndex, as a 1-based index into lines (the source's result plus one).
findBodyEndIndex(lines) ==
  LET n == Len(lines)
      E == {i \in 1..n : LET line == ToUpperCase(Trim(lines[i])) IN
                           \/ StartsWith(line, "END_")
                           \/ StartsWith(line, "FUNCTION")
                           \/ StartsWith(line, "PROGRAM")}
  IN  IF E = {} THEN n ELSE LastOf(E, 0) - 1

extractBody(s) ==
  LET lines == Split(s, "\n")
      bodyStartIndex == findBodyStartIndex(lines)
      bodyEndIndex == findBodyEndIndex(lines)
  IN  IF bodyEndIndex = 0 THEN ""
      ELSE Join(SubSeq(lines, bodyStartIndex, bodyEndIndex), "\n")

(***************************************************************************)
(* STParser: expressions                                                   *)
(***************************************************************************)

\* An AST node; name and value are UNDEF when the source leaves them out.
Node(type, name, value, children, ctx) ==
  [type |-> type, name |-> name, value |-> value, children |-> children,
   lineNumber |-> ctx.lineNumber, columnNumber |-> 1, scope |-> ctx.currentScope]

\* The outcome of a call that ends in RangeError (maximum call stack size exceeded).
RangeError ==
  [type |-> "<RangeError>", name |-> UNDEF, value |-> UNDEF, children |-> <<>>,
   lineNumber |-> 0, columnNumber |-> 0, scope |-> ""]

Throws(children) == \E k \in 1..Len(children) : children[k] = RangeError

\* A node whose children are evaluated first: an error raised by one of them
\* propagates.
NodeOf(type, name, value, children, ctx) ==
  IF Throws(children) THEN RangeError ELSE Node(type, name, value, children, ctx)

\* /^-?\d+(\.\d+)?$/.test(expression)
IsNumericLiteral(e) == IsIntegerToken(e) \/ IsDecimalToken(e)

isLiteral(e) ==
  \/ (StartsWith(e, "'") /\ EndsWith(e, "'")) \/ (StartsWith(e, "\"") /\ EndsWith(e, "\""))
  \/ IsNumericLiteral(e)
  \/ ToUpperCase(e) = "TRUE" \/ ToUpperCase(e) = "FALSE"
  \/ StartsWith(ToUpperCase(e), "T#") \/ StartsWith(ToUpperCase(e), "TIME#")

\* /^[a-zA-Z_][a-zA-Z0-9_]*$/.test(e)
IsIdentifier(e) == Len(e) >= 1 /\ ~IsDigit(Ch(e, 1)) /\ SkipWord(e, 1) > Len(e)

BINARY_TESTS ==
  <<" AND ", " OR ", " XOR ", " + ", " - ", " * ", " / ", " MOD ", " DIV ", " = ",
    "<> ", " < ", " > ", "<= ", ">= ">>

isBinaryExpression(e) == \E k \in 1..Len(BINARY_TESTS) : Includes(e, BINARY_TESTS[k])

BINARY_OPERATORS ==
  <<"AND", "OR", "XOR", "+", "-", "*", "/", "MOD", "DIV", "=", "<>", "<", ">", "<=", ">=">>

\* The first operator of parseBinaryExpression's list that splits e in exactly two
\* parts, as an index into BINARY_OPERATORS; 0 when the loop finds none.
SplittingOperator(e) ==
  FirstOf({k \in 1..Len(BINARY_OPERATORS) :
             Len(Split(e, " " \o BINARY_OPERATORS[k] \o " ")) = 2}, 0)

\* parseExpression and parseBinaryExpression. When no operator splits the text in
\* two, parseBinaryExpression calls parseExpression with the same text, which calls
\* parseBinaryExpression again: the recursion ends in RangeError.
RECURSIVE parseExpression(_, _)
parseExpression(ctx, expression) ==
  LET e == Trim(expression) IN
  IF isLiteral(e) THEN Node("LITERAL", UNDEF, e, <<>>, ctx)
  ELSE IF IsIdentifier(e) THEN Node("VARIABLE", e, UNDEF, <<>>, ctx)
  ELSE IF isBinaryExpression(e)
  THEN LET k == SplittingOperator(e) IN
       IF k = 0 THEN RangeError
       ELSE LET parts == Split(e, " " \o BINARY_OPERATORS[k] \o " ") IN
            NodeOf("BINARY_EXPRESSION", BINARY_OPERATORS[k], e,
                   <<parseExpression(ctx, Trim(parts[1])), parseExpression(ctx, Trim(parts[2]))>>,
                   ctx)
  ELSE Node("VARIABLE", e, UNDEF, <<>>, ctx)

(***************************************************************************)
(* STParser: statements                                                    *)
(***************************************************************************)

\* The characters . matches.
NoTerminator(s, i, j) == \A k \in i..j : Ch(s, k) \notin LineTerminators

\* Among <<p, gs, ge>> triples, the one the engine finds first: leftmost start p,
\* then the longest \s+ before the group (greatest gs), then the shortest lazy
\* group (least ge).
FirstLazy(S) ==
  CHOOSE t \in S : \A r \in S :
    \/ t[1] < r[1]
    \/ t[1] = r[1] /\ t[2] > r[2]
    \/ t[1] = r[1] /\ t[2] = r[2] /\ t[3] <= r[3]

\* The matches <<p, gs, ge>> of /kw1\s+(.+?)\s+kw2/i on line: kw1 at p, the group
\* at gs..ge, its characters accepted by ok(gs, ge).
PairMatches(line, u, kw1, kw2, ok(_, _, _)) ==
  UNION {UNION {{<<p, gs, ge>> : ge \in {e \in gs..Len(line) :
                                          /\ NoTerminator(line, gs, e)
                                          /\ IsSpace(Ch(line, e + 1))
                                          /\ At(u, SkipSpace(line, e + 1), kw2)
                                          /\ ok(p, gs, e)}}
                : gs \in (p + Len(kw1) + 1)..SkipSpace(line, p + Len(kw1))}
         : p \in {q \in 1..Len(line) : At(u, q, kw1)}}

Always(p, gs, ge) == TRUE

\* Group 1 of /kw1\s+(.+?)\s+kw2/i on line, UNDEF when there is no match
\* (the patterns of parseIfStatement, parseWhileLoop and parseCaseStatement).
KeywordPairMatch(line, kw1, kw2) ==
  LET cand == PairMatches(line, ToUpperCase(line), kw1, kw2, Always) IN
  IF cand = {} THEN UNDEF
  ELSE Sub(line, FirstLazy(cand)[2], FirstLazy(cand)[3])

\* The end of parseRepeatLoop's pattern, (?:\s*;)?$, matches from index x.
RepeatTail(line, x) ==
  x > Len(line) \/ (Ch(line, Len(line)) = ";" /\ SkipSpace(line, x) = Len(line))

\* The starts of group 2 of parseRepeatLoop's pattern when UNTIL stands at index w:
\* after \s+, with a group (.+?) that reaches the end of the pattern.
UntilStarts(line, w) ==
  {c \in (w + 6)..SkipSpace(line, w + 5) :
     \E e \in c..Len(line) : NoTerminator(line, c, e) /\ RepeatTail(line, e + 1)}

\* Group 2 of /REPEAT\s+(.+?)\s+UNTIL\s+(.+?)(?:\s*;)?$/i on line, UNDEF when there
\* is no match.
RepeatMatch(line) ==
  LET n == Len(line)
      follows(p, gs, ge) == UntilStarts(line, SkipSpace(line, ge + 1)) # {}
      bodies == PairMatches(line, ToUpperCase(line), "REPEAT", "UNTIL", follows)
  IN  IF bodies = {} THEN UNDEF
      ELSE LET t == FirstLazy(bodies)
               c == LastOf(UntilStarts(line, SkipSpace(line, t[3] + 1)), 0)
               e == FirstOf({k \in c..n : NoTerminator(line, c, k) /\ RepeatTail(line, k + 1)}, 0)
           IN  Sub(line, c, e)

\* The groups of parseForLoop's pattern with FOR at index p, the counter at v..ve-1
\* and the numbers at d1..d1e-1 and d2..d2e-1.
ForGroups(line, u, p, v, ve, d1, d1e, d2, d2e) ==
  [found |-> /\ At(u, p, "FOR") /\ v > p + 3 /\ ve > v /\ At(line, SkipSpace(line, ve), ":=")
             /\ d1e > d1 /\ SkipSpace(line, d1e) > d1e /\ At(u, SkipSpace(line, d1e), "TO")
             /\ d2 > SkipSpace(line, d1e) + 2 /\ d2e > d2,
   g1 |-> Sub(line, v, ve - 1), g2 |-> Sub(line, d1, d1e - 1), g3 |-> Sub(line, d2, d2e - 1)]

ForTo(line, u, p, v, ve, d1, d1e, d2) ==
  ForGroups(line, u, p, v, ve, d1, d1e, d2, SkipDigits(line, d2))

ForFrom(line, u, p, v, ve, d1, d1e) ==
  ForTo(line, u, p, v, ve, d1, d1e, SkipSpace(line, SkipSpace(line, d1e) + 2))

ForCounter(line, u, p, v, ve, d1) == ForFrom(line, u, p, v, ve, d1, SkipDigits(line, d1))

ForKeyword(line, u, p, v, ve) ==
  ForCounter(line, u, p, v, ve, SkipSpace(line, SkipSpace(line, ve) + 2))

\* /FOR\s+(\w+)\s*:=\s*(\d+)\s+TO\s+(\d+)/i matched at index p.
ForMatchAt(line, u, p) ==
  ForKeyword(line, u, p, SkipSpace(line, p + 3), SkipWord(line, SkipSpace(line, p + 3)))

NoForMatch == [found |-> FALSE, g1 |-> UNDEF, g2 |-> UNDEF, g3 |-> UNDEF]

ForMatchFirst(line, u, p) == IF p = 0 THEN NoForMatch ELSE ForMatchAt(line, u, p)

ForMatchIn(line, u) ==
  ForMatchFirst(line, u, FirstOf({k \in 1..Len(line) : At(u, k, "FOR") /\ ForMatchAt(line, u, k).found}, 0))

\* line.match(/FOR\s+(\w+)\s*:=\s*(\d+)\s+TO\s+(\d+)/i): groups 1 to 3, or found = FALSE.
ForMatch(line) == ForMatchIn(line, ToUpperCase(line))

\* value.replace(';', ''): the first semicolon removed.
RemoveFirstSemicolon(v) ==
  LET k == IndexOf(v, ";", 1) IN
  IF k = 0 THEN v ELSE Sub(v, 1, k - 1) \o Sub(v, k + 1, Len(v))

parseAssignment(ctx, line) ==
  LET parts    == Split(line, ":=")
      variable == Trim(parts[1])
      value    == RemoveFirstSemicolon(Trim(parts[2]))
  IN  NodeOf("ASSIGNMENT", variable, value,
             <<Node("VARIABLE", variable, UNDEF, <<>>, ctx), parseExpression(ctx, value)>>, ctx)

\* The node of parseIfStatement, parseWhileLoop, parseCaseStatement and
\* parseRepeatLoop: the header expression, '' when the pattern does not match.
HeaderNode(ctx, type, name, match) ==
  LET condition == IF match = UNDEF THEN "" ELSE match IN
  NodeOf(type, name, condition, <<parseExpression(ctx, condition)>>, ctx)

parseIfStatement(ctx, line) ==
  HeaderNode(ctx, "IF_STATEMENT", "IF", KeywordPairMatch(line, "IF", "THEN"))

parseWhileLoop(ctx, line) ==
  HeaderNode(ctx, "WHILE_LOOP", "WHILE", KeywordPairMatch(line, "WHILE", "DO"))

parseCaseStatement(ctx, line) ==
  HeaderNode(ctx, "CASE_STATEMENT", "CASE", KeywordPairMatch(line, "CASE", "OF"))

parseRepeatLoop(ctx, line) ==
  HeaderNode(ctx, "REPEAT_LOOP", "REPEAT", RepeatMatch(line))

\* The node of parseForLoop; `${forMatch?.[2]} TO ${forMatch?.[3]}` prints an absent
\* group as "undefined".
ForNode(ctx, name, from, to) ==
  Node("FOR_LOOP", name, from \o " TO " \o to, <<Node("VARIABLE", name, UNDEF, <<>>, ctx)>>, ctx)

ForNodeOf(ctx, forMatch) ==
  IF forMatch.found THEN ForNode(ctx, forMatch.g1, forMatch.g2, forMatch.g3)
  ELSE ForNode(ctx, "", "undefined", "undefined")

parseForLoop(ctx, line) == ForNodeOf(ctx, ForMatch(line))

\* line.match(/^(\w+)\s*\(([^)]*)\)/): the name and the argument text.
CallMatch(line) ==
  LET ne    == SkipWord(line, 1)
      open  == SkipSpace(line, ne)
      close == IndexOf(line, ")", open + 1)
  IN  [found |-> ne > 1 /\ Ch(line, open) = "(" /\ close # 0,
       g1 |-> Sub(line, 1, ne - 1), g2 |-> Sub(line, open + 1, close - 1)]

TrimAll(parts) == [k \in 1..Len(parts) |-> Trim(parts[k])]

\* parseFunctionCall; found = FALSE is the null the source returns.
parseFunctionCall(ctx, line) ==
  LET callMatch == CallMatch(line)
      args == TrimAll(Split(callMatch.g2, ","))
  IN  IF ~callMatch.found THEN [found |-> FALSE, node |-> RangeError]
      ELSE [found |-> TRUE,
            node  |-> NodeOf("FUNCTION_CALL", callMatch.g1, Join(args, ", "),
                             [k \in 1..Len(args) |-> parseExpression(ctx, args[k])], ctx)]

\* Group 1 of /RETURN\s*(.+)?/i on a line that starts with RETURN in any letter case.
ReturnMatch(line) ==
  LET p == IndexOf(ToUpperCase(line), "RETURN", 1)
      a == SkipSpace(line, p + 6)
      e == LineEnd(line, a) - 1
  IN  IF p = 0 \/ e < a THEN UNDEF ELSE Sub(line, a, e)

parseReturnStatement(ctx, line) ==
  LET returnValue == ReturnMatch(line) IN
  NodeOf("FUNCTION_CALL", "RETURN", returnValue,
         IF returnValue # UNDEF /\ returnValue # ""
         THEN <<parseExpression(ctx, returnValue)>> ELSE <<>>, ctx)

ST_KEYWORDS ==
  <<"IF", "THEN", "ELSIF", "ELSE", "END_IF",
    "FOR", "TO", "BY", "DO", "END_FOR",
    "WHILE", "DO", "END_WHILE",
    "REPEAT", "UNTIL", "END_REPEAT",
    "CASE", "OF", "ELSE", "END_CASE",
    "VAR", "VAR_INPUT", "VAR_OUTPUT", "VAR_TEMP", "VAR_GLOBAL", "END_VAR",
    "PROGRAM", "FUNCTION_BLOCK", "FUNCTION", "END_PROGRAM", "END_FUNCTION_BLOCK", "END_FUNCTION",
    "RETURN", "EXIT", "CONTINUE",
    "TRUE", "FALSE", "NOT", "AND", "OR", "XOR",
    "MOD", "DIV", "SEL", "MUX", "MAX", "MIN",
    "LIMIT", "MOVE", "ADR", "ADRINST", "BITADR", "INDEX",
    "SIZEOF", "SHL", "SHR", "ROL", "ROR",
    "ROUND", "TRUNC", "SIN", "COS", "TAN", "ASIN", "ACOS", "ATAN",
    "EXP", "LN", "LOG", "SQRT">>

KeywordSet == {ST_KEYWORDS[k] : k \in 1..Len(ST_KEYWORDS)}

\* /^(\w+)\s*\(/.test(line) && !ST_KEYWORDS.some(keyword => line.toUpperCase().startsWith(keyword))
isFunctionCall(line) ==
  /\ SkipWord(line, 1) > 1
  /\ Ch(line, SkipSpace(line, SkipWord(line, 1))) = "("
  /\ ~\E kw \in KeywordSet : StartsWith(ToUpperCase(line), kw)

\* The outcome of parseLine: a node, null (kind "none"), or an error raised.
Parsed(node) == [kind |-> IF node = RangeError THEN "throw" ELSE "node", node |-> node]
NoNode == [kind |-> "none", node |-> RangeError]

ParsedCall(r) == IF r.found THEN Parsed(r.node) ELSE NoNode

parseLine(ctx, line) ==
  IF Includes(line, ":=") THEN Parsed(parseAssignment(ctx, line))
  ELSE IF StartsWith(line, "IF") THEN Parsed(parseIfStatement(ctx, line))
  ELSE IF StartsWith(line, "FOR") THEN Parsed(parseForLoop(ctx, line))
  ELSE IF StartsWith(line, "WHILE") THEN Parsed(parseWhileLoop(ctx, line))
  ELSE IF StartsWith(line, "CASE") THEN Parsed(parseCaseStatement(ctx, line))
  ELSE IF StartsWith(line, "REPEAT") THEN Parsed(parseRepeatLoop(ctx, line))
  ELSE IF isFunctionCall(line) THEN ParsedCall(parseFunctionCall(ctx, line))
  ELSE IF StartsWith(ToUpperCase(line), "RETURN") THEN Parsed(parseReturnStatement(ctx, line))
  ELSE NoNode

(***************************************************************************)
(* STParser.generateAST, extractDependencies, extractInstances, parse      *)
(***************************************************************************)

\* The parser's context after the constructor and after parse's reset.
InitialContext ==
  [currentScope |-> "global", lineNumber |-> 1, columnNumber |-> 1,
   inComment |-> FALSE, commentType |-> "null"]

\* A loop without the try/catch: the error of a line leaves generateAST.
CatchLineNever(r) == r

\* The try/catch of generateAST around parseLine: an error raised by the line is
\* logged and the line contributes nothing.
CatchLine(r) == IF r.kind = "throw" THEN NoNode ELSE r

\* A loop that does not set the line number of the context before parsing a line.
LineOutcomeUnnumbered(ctx, lines, i) ==
  LET line == Trim(lines[i]) IN
  IF line = "" \/ StartsWith(line, "//") \/ StartsWith(line, "(*") THEN NoNode
  ELSE CatchLine(parseLine(ctx, line))

\* One turn of generateAST's loop: the outcome of lines[i].
LineOutcome(ctx, lines, i) ==
  LET line == Trim(lines[i]) IN
  IF line = "" \/ StartsWith(line, "//") \/ StartsWith(line, "(*") THEN NoNode
  ELSE CatchLine(parseLine([ctx EXCEPT !.lineNumber = i], line))

\* What generateAST returns for the outcomes of its lines: the root node, the
\* context the call leaves behind, and whether an error left the loop.
Generated(ctx, outcomes) ==
  [raised  |-> \E i \in 1..Len(outcomes) : outcomes[i].kind = "throw",
   ast     |-> [type |-> "PROGRAM", name |-> UNDEF, value |-> UNDEF,
                children |-> LET pushed == SelectSeq(outcomes, LAMBDA r : r.kind = "node")
                             IN  [k \in 1..Len(pushed) |-> pushed[k].node],
                lineNumber |-> 1, columnNumber |-> 1, scope |-> "global"],
   context |-> [ctx EXCEPT !.lineNumber = Len(outcomes)]]

LinesOutcomes(ctx, lines) == [i \in 1..Len(lines) |-> LineOutcome(ctx, lines, i)]

generateAST(ctx, body) == Generated(ctx, LinesOutcomes(ctx, Split(body, "\n")))

\* The nodes of a tree in the order the recursive walks visit them.
RECURSIVE Flatten(_)
RECURSIVE FlattenAll(_)
Flatten(node) == <<node>> \o FlattenAll(node.children)
FlattenAll(nodes) ==
  IF Len(nodes) = 0 THEN <<>> ELSE Flatten(nodes[1]) \o FlattenAll(Tail(nodes))

\* Array.from(new Set(names)): the first occurrences, in order.
Unique(names) ==
  LET firsts == SelectSeq([k \in 1..Len(names) |-> k],
                          LAMBDA k : \A j \in 1..(k - 1) : names[j] # names[k])
  IN  [p \in 1..Len(firsts) |-> names[firsts[p]]]

\* node.type === 'FUNCTION_CALL' && node.name && !ST_KEYWORDS.includes(node.name.toUpperCase())
IsDependency(node) ==
  /\ node.type = "FUNCTION_CALL"
  /\ node.name # UNDEF /\ node.name # ""
  /\ ToUpperCase(node.name) \notin KeywordSet

extractDependencies(ast) ==
  LET calls == SelectSeq(Flatten(ast), IsDependency) IN
  Unique([k \in 1..Len(calls) |-> calls[k].name])

PRIMITIVE_TYPES == {"BOOL", "INT", "DINT", "REAL", "STRING"}

\* findFBInstance: the declared variables the call name can be an instance of.
FBCandidates(instanceName, variables) ==
  {k \in 1..Len(variables) :
     /\ variables[k].name = instanceName
     /\ variables[k].dataType # ""
     /\ ToUpperCase(variables[k].dataType) \notin PRIMITIVE_TYPES}

\* The instance extractFromNode pushes at a node, if any.
InstanceAt(node, variables) ==
  IF /\ node.type = "ASSIGNMENT"
     /\ Len(node.children) >= 2
     /\ node.children[2].type = "FUNCTION_CALL"
     /\ FBCandidates(node.children[2].name, variables) # {}
  THEN <<[name |-> node.children[2].name,
          type |-> variables[FirstOf(FBCandidates(node.children[2].name, variables), 0)].dataType,
          lineNumber |-> node.lineNumber]>>
  ELSE <<>>

RECURSIVE InstancesOf(_, _)
InstancesOf(nodes, variables) ==
  IF Len(nodes) = 0 THEN <<>>
  ELSE InstanceAt(nodes[1], variables) \o InstancesOf(Tail(nodes), variables)

extractInstances(ast, variables) == InstancesOf(Flatten(ast), variables)

\* The result of a failed parse: the error thrown, and no unit.
NoUnit ==
  [name |-> "", type |-> "", filePath |-> "", content |-> "",
   ast |-> RangeError, variables |-> <<>>, dependencies |-> <<>>, instances |-> <<>>,
   description |-> UNDEF]

NO_POU_MESSAGE == "No valid POU declaration found"

RANGE_ERROR_MESSAGE == "Maximum call stack size exceeded"

\* An outcome of parse that throws: no unit is returned.
Thrown(message, ctx) ==
  [status |-> "error", error |-> message, unit |-> NoUnit, context |-> ctx]

\* The unit parse builds from the header, the variables and the tree.
UnitOf(fileName, text, header, variables, ast) ==
  [name         |-> header.name,
   type         |-> header.type,
   filePath     |-> fileName,
   content      |-> Trim(text),
   ast          |-> ast,
   variables    |-> variables,
   dependencies |-> extractDependencies(ast),
   instances    |-> extractInstances(ast, variables),
   description  |-> header.description]

\* parse once the tree is generated: an error that left generateAST is thrown on.
Finish(fileName, text, header, variables, gen) ==
  IF gen.raised THEN Thrown(RANGE_ERROR_MESSAGE, gen.context)
  ELSE [status |-> "ok", error |-> "", context |-> gen.context,
        unit |-> UnitOf(fileName, text, header, variables, gen.ast)]

\* parse from the preprocessed text on, the context being reset.
ParsePreprocessed(reset, fileName, text, pre, header) ==
  IF ~header.found THEN Thrown(NO_POU_MESSAGE, reset)
  ELSE Finish(fileName, text, header, extractVariables(pre),
              generateAST(reset, extractBody(pre)))

ParseContent(reset, fileName, text, pre) ==
  ParsePreprocessed(reset, fileName, text, pre, extractHeader(pre))

\* A reset that leaves a trace of the previous parse in the scope.
parseLeaking(ctx, fileName, text) ==
  ParseContent([InitialContext EXCEPT
                  !.currentScope = IF ctx.lineNumber = 1 THEN "global" ELSE "stale"],
               fileName, text, preprocessContent(text))

\* STParser.parse on a parser whose context is ctx: the outcome ("ok" with the
\* unit, or "error" with the message of the error thrown to the caller) and the
\* context left behind.
parse(ctx, fileName, text) ==
  ParseContent(InitialContext, fileName, text, preprocessContent(text))

(***************************************************************************)
(* The source texts given to the parser                                    *)
(***************************************************************************)

\* A source text is described by its parts: the lines before the variable blocks,
\* the blocks with their declarations, the body lines and the closing line.
Decl(name, type, init) == [name |-> name, type |-> type, init |-> init]
Block(kw, decls) == [kw |-> kw, decls |-> decls]
Source(head, blocks, body, foot) ==
  [head |-> head, blocks |-> blocks, body |-> body, foot |-> foot]

NoSource == Source("", <<>>, <<>>, "")

RenderDecl(d) ==
  "  " \o d.name \o " : " \o d.type
       \o (IF d.init = UNDEF THEN "" ELSE " := " \o d.init) \o ";"

RenderBlock(b) ==
  <<b.kw>> \o [k \in 1..Len(b.decls) |-> RenderDecl(b.decls[k])] \o <<"END_VAR">>

RECURSIVE RenderBlocks(_)
RenderBlocks(blocks) ==
  IF Len(blocks) = 0 THEN <<>>
  ELSE RenderBlock(blocks[1]) \o RenderBlocks(Tail(blocks))

\* The text of a source.
Render(d) ==
  Join(<<d.head>> \o RenderBlocks(d.blocks) \o d.body
       \o (IF d.foot = "" THEN <<>> ELSE <<d.foot>>), "\n")

\* The sequences over a set of at most n elements.
RECURSIVE SeqsUpTo(_, _)
SeqsUpTo(S, n) ==
  IF n = 0 THEN {<<>>}
  ELSE LET shorter == SeqsUpTo(S, n - 1) IN
       shorter \cup {Append(q, x) : q \in shorter, x \in S}

\* The sequences without repetition among them.
Distinct(q) == \A i, j \in 1..Len(q) : i # j => q[i] # q[j]

MaxBodyLines == 2
MaxBlocks == 2
MaxTokenLen == 3
MaxCalls == 2

\* First lines: unit declarations in the forms the declaration pattern accepts,
\* and lines without one.
DeclaringHeads ==
  {"PROGRAM Main", "FUNCTION_BLOCK Motor", "FUNCTION Calc : INT", "program   lower_1",
   "// Pump control\nFUNCTION_BLOCK Pump", "PROGRAM\tVarDemo"}
OtherHeads ==
  {"", "This is not a valid ST program", "PROGRAM", "// PROGRAM Hidden",
   "(* FUNCTION Hidden *)", "FUNCTION_BLOCKMotor", "PROGRAM;"}

StandardBlocks == <<Block("VAR", <<Decl("x", "INT", "0")>>)>>
StandardBody == <<"x := 1;">>

\* Texts that differ in their first and last lines.
HeadSources ==
  {Source(h, b, StandardBody, f) :
     h \in DeclaringHeads \cup OtherHeads, b \in {<<>>, StandardBlocks}, f \in {"", "END_PROGRAM"}}

\* Texts that differ in the unit's name and in the variable blocks and their order.
UnitNames == {"Main", "VarDemo", "Conveyor"}
BlockPool ==
  {Block("VAR_INPUT", <<Decl("a", "INT", UNDEF), Decl("b", "BOOL", "TRUE")>>),
   Block("VAR_OUTPUT", <<Decl("q", "REAL", UNDEF)>>),
   Block("VAR", <<Decl("n", "INT", "10")>>)}
ScopeSources ==
  {Source(kw \o " " \o u, bs, StandardBody, "END_" \o kw) :
     kw \in {"PROGRAM", "FUNCTION_BLOCK"}, u \in UnitNames,
     bs \in {q \in SeqsUpTo(BlockPool, MaxBlocks) : Distinct(q)}}

\* Texts that differ in the initial value of one declaration.
TokenChars == {"7", "-", ".", "'"}
RECURSIVE StringsUpTo(_, _)
StringsUpTo(C, n) ==
  IF n = 0 THEN {""}
  ELSE LET shorter == StringsUpTo(C, n - 1) IN
       shorter \cup {t \o c : t \in shorter, c \in C}
ExampleTokens ==
  {"TRUE", "FALSE", "true", "42", "3.14", "-3.140", "'abc'", "\"abc\"", "\"\"", "'a b'",
   "T#5S", "D#2024-01-01", "'it\"", "1e5", "+5", "16#FF", "7.0", "007", "-0"}
Tokens == ExampleTokens \cup (StringsUpTo(TokenChars, MaxTokenLen) \ {""})
TokenSources ==
  {Source("PROGRAM Main", <<Block("VAR", <<Decl("v", "T", t)>>)>>, <<>>, "END_PROGRAM") :
     t \in Tokens}

\* Texts that differ in their body lines.
StatementPool ==
  {"total := a + b + c;", "FOR i := 1 TO 10 DO", "IF x > 0 THEN",
   "result := MAX(a, b);", "result := ABS(x);", "MAX(a, b);", "ABS(x);", "Helper(a, 1);"}
BodySources ==
  {Source("PROGRAM Main", StandardBlocks, b, "END_PROGRAM") :
     b \in SeqsUpTo(StatementPool, MaxBodyLines)}

\* A text with a malformed variable line, a line that is no statement and an
\* expression of three operands.
AnomalySource ==
  Source("PROGRAM Main",
         <<Block("VAR", <<Decl("x", "INT", "0"), Decl("2 bad", "INT", UNDEF)>>)>>,
         <<"total := a + b + c;", "not a statement">>, "END_PROGRAM")

\* The FOR headers of the texts: the counter and the two integer literals.
ForLoops == {[v |-> "i", a |-> "1", b |-> "10"], [v |-> "x", a |-> "5", b |-> "1"]}

ForLine(l) == "FOR " \o l.v \o " := " \o l.a \o " TO " \o l.b \o " DO"

\* A unit whose loop counts down from 5 to 1.
ScenarioSource ==
  Source("PROGRAM T", <<Block("VAR", <<Decl("x", "INT", "0")>>)>>,
         <<ForLine([v |-> "x", a |-> "5", b |-> "1"]), "  x := x + 1;", "END_FOR;">>,
         "END_PROGRAM")

\* A unit that assigns the results of calls, one call nested in another.
DependencySource ==
  Source("PROGRAM DependencyTest",
         <<Block("VAR", <<Decl("result", "REAL", UNDEF), Decl("value", "REAL", "5.0")>>)>>,
         <<"result := CustomFunction(value);",
           "result := AnotherFunction(CustomFunction(value));">>,
         "END_PROGRAM")

\* A unit whose declaration carries a trailing comment.
CommentSource ==
  Source("PROGRAM CommentTest\nVAR\n  x : INT := 0; // counter of parts\nEND_VAR",
         <<>>, <<"x := 1;">>, "END_PROGRAM")

\* A unit whose declarations lack the terminating semicolon.
MalformedSource ==
  Source("PROGRAM TestProgram\nVAR\n  x: INT\n  y: BOOL\nEND_VAR", <<>>, <<>>, "END_PROGRAM")

\* A unit whose assignments differ in the shape of the expression assigned.
ExpressionSource ==
  Source("PROGRAM Expressions", StandardBlocks,
         <<"n := 5;", "sum := a + b;", "total := a + b + c;", "flag := a<> b;">>,
         "END_PROGRAM")

\* A unit whose body calls functions, two of them with names that begin with the
\* letters of a keyword (TO, DO).
CallSource ==
  Source("PROGRAM Calls", StandardBlocks,
         <<"Helper(a, 1);", "Total(a);", "DoWork(a, 1);">>, "END_PROGRAM")

\* A unit whose declaration follows two comment lines.
DescribedSource ==
  Source("// Conveyor control\n// Stops on fault\nPROGRAM Conveyor", StandardBlocks,
         StandardBody, "END_PROGRAM")

\* A unit with a block of constants: two declarations within the two lines that
\* follow the marker and one further down.
ConstantSource ==
  Source("PROGRAM Constants\nVAR CONSTANT\n  PI : REAL := 3.14;\n  N : INT := 10;\n  M : INT := 3;\nEND_VAR",
         <<>>, <<"y := 1;">>, "END_PROGRAM")

\* A unit that declares the same name twice in one block.
DuplicateSource ==
  Source("PROGRAM Duplicates",
         <<Block("VAR_INPUT", <<Decl("x", "INT", "0"), Decl("y", "BOOL", UNDEF),
                                Decl("x", "REAL", "1.5")>>)>>,
         <<"y := TRUE;">>, "END_PROGRAM")

\* A unit that assigns the result of a call of a declared function block
\* instance, of a call of a declared integer and a literal.
InstanceSource ==
  Source("PROGRAM Instances",
         <<Block("VAR", <<Decl("motor1", "MotorFB", UNDEF), Decl("count", "INT", UNDEF),
                          Decl("ok", "BOOL", UNDEF)>>)>>,
         <<"ok := motor1(count);", "ok := count(1);", "ok := TRUE;">>, "END_PROGRAM")

ScenarioSources ==
  {AnomalySource, ScenarioSource, DependencySource, CommentSource, MalformedSource,
   ExpressionSource, CallSource, DescribedSource, ConstantSource, DuplicateSource,
   InstanceSource}

\* Texts that differ in the comment marks of one line: the line is made of at
\* most MaxPieces pieces.
MaxPieces == 2
CommentPieces == {"//", "(*", "*)", "a\nb"}
ExampleComments ==
  {"x := 1; // speed", "x := 1; (* speed *)", "(* speed // in rpm *)", "a /(* c *)/ b",
   "a\n\n\n\nb", "a\n  \n\t\n  b", "(* a\nb *) c // d\ne", "((* a *)* b *)", "(*//*)",
   "// a (* b\nc *) d"}
CommentTexts == ExampleComments \cup (StringsUpTo(CommentPieces, MaxPieces) \ {""})
CommentSources ==
  {Source("PROGRAM Main", <<>>, <<t>>, "END_PROGRAM") : t \in CommentTexts}

Sources ==
  HeadSources \cup ScopeSources \cup TokenSources \cup BodySources \cup ScenarioSources
    \cup CommentSources

\* The texts a parser is given between two parses of the same text.
OtherSources ==
  {Source("FUNCTION Other : BOOL", <<>>, <<"a := 1;", "b := 2;", "Other := TRUE;">>,
          "END_FUNCTION")}

FileNames == {"main.st"}

(***************************************************************************)
(* AnalysisService: the passes                                             *)
(***************************************************************************)

\* A CodeIssue. Confidence is in hundredths (0.95 is 95); lineNumber 0 stands for
\* an absent line number; the id is the tag, Date.now() and a suffix.
Issue(tag, now, suffix, type, severity, pouFiles, lineNumber, confidence) ==
  [id |-> tag \o "-" \o ToString(now) \o suffix, type |-> type, severity |-> severity,
   pouFiles |-> pouFiles, lineNumber |-> lineNumber, confidence |-> confidence]

\* The concatenation of a sequence of sequences.
RECURSIVE Concat(_)
Concat(qs) == IF Len(qs) = 0 THEN <<>> ELSE qs[1] \o Concat(Tail(qs))

\* parseInt(t): an optional sign and the leading digits of the trimmed text; NaN
\* when there is no digit.
ParseIntAt(t, a) ==
  [nan |-> SkipDigits(t, a) = a,
   value |-> (IF Ch(t, 1) = "-" THEN -1 ELSE 1) * DigitsToNat(Sub(t, a, SkipDigits(t, a) - 1))]
ParseIntTrimmed(t) == ParseIntAt(t, IF Ch(t, 1) \in {"-", "+"} THEN 2 ELSE 1)
parseInt(s) == ParseIntTrimmed(Trim(s))

\* start >= end, false when either is NaN.
NotBelow(start, end) == ~start.nan /\ ~end.nan /\ start.value >= end.value

\* The FOR check of findLoops on the parts of node.value.split('TO').
ForBoundsIssue(pou, node, now, parts) ==
  IF Len(parts) = 2 /\ NotBelow(parseInt(parts[1]), parseInt(parts[2]))
  THEN <<Issue("loop-issue", now, "", "LOGIC_ERROR", "WARNING", <<pou.name>>, node.lineNumber, 80)>>
  ELSE <<>>

\* The issues findLoops pushes at one node.
LoopIssuesAt(pou, node, now) ==
  IF node.type = "FOR_LOOP"
  THEN (IF node.value # UNDEF /\ Includes(node.value, "TO")
        THEN ForBoundsIssue(pou, node, now, Split(node.value, "TO")) ELSE <<>>)
  ELSE IF node.type = "WHILE_LOOP"
  THEN <<Issue("while-check", now, "", "LOGIC_ERROR", "WARNING", <<pou.name>>, node.lineNumber, 60)>>
  ELSE <<>>

\* The issues a recursive walk collects: those of every node, in visiting order.
Collect(nodes, at(_)) == Concat([k \in 1..Len(nodes) |-> at(nodes[k])])

analyzeLoops(pou, now) == Collect(Flatten(pou.ast), LAMBDA node : LoopIssuesAt(pou, node, now))

\* lines.some(test)
Some(lines, test(_)) == \E k \in 1..Len(lines) : test(lines[k])

hasDivisionSafetyCheck(text) ==
  Some(Split(text, "\n"),
       LAMBDA line : /\ Includes(line, "IF")
                     /\ (Includes(line, "<> 0") \/ Includes(line, "> 0") \/ Includes(line, "!= 0")))

DivisionIssuesAt(pou, node, now) ==
  IF /\ node.type = "ASSIGNMENT" /\ node.value # UNDEF /\ node.value # ""
     /\ (Includes(node.value, "/") \/ Includes(node.value, "DIV"))
     /\ ~hasDivisionSafetyCheck(pou.content)
  THEN <<Issue("division-safety", now, "", "RUNTIME_ERROR", "WARNING", <<pou.name>>, node.lineNumber, 70)>>
  ELSE <<>>

analyzeDivisionOperations(pou, now) ==
  Collect(Flatten(pou.ast), LAMBDA node : DivisionIssuesAt(pou, node, now))

\* node.name.match(/^(\w+)\[(.+)\]$/): the array name, "" when there is no match.
ArrayNameOf(name, w) ==
  IF /\ w > 1 /\ Ch(name, w) = "[" /\ Ch(name, Len(name)) = "]" /\ Len(name) >= w + 2
     /\ NoTerminator(name, w + 1, Len(name) - 1)
  THEN Sub(name, 1, w - 1) ELSE ""
ArrayMatch(name) == ArrayNameOf(name, SkipWord(name, 1))

hasArrayBoundsCheck(arrayName, text) ==
  Some(Split(text, "\n"),
       LAMBDA line : Includes(line, arrayName) /\ Includes(line, ">=") /\ Includes(line, "<="))

ArrayIssuesAt(pou, node, now) ==
  IF /\ node.type = "VARIABLE" /\ node.name # UNDEF /\ Includes(node.name, "[")
     /\ ArrayMatch(node.name) # ""
     /\ ~hasArrayBoundsCheck(ArrayMatch(node.name), pou.content)
  THEN <<Issue("array-bounds", now, "", "RUNTIME_ERROR", "WARNING", <<pou.name>>, node.lineNumber, 60)>>
  ELSE <<>>

analyzeArrayAccess(pou, now) ==
  Collect(Flatten(pou.ast), LAMBDA node : ArrayIssuesAt(pou, node, now))

\* findUninitializedVariables returns no name, so no issue is made.
analyzeVariableInitialization(pou, now) == <<>>

performStructuralAnalysis(project, now) ==
  Collect(project.files,
          LAMBDA pou : analyzeLoops(pou, now) \o analyzeDivisionOperations(pou, now)
                       \o analyzeArrayAccess(pou, now) \o analyzeVariableInitialization(pou, now))

\* The cycles detectCircularDependencies returns.
detectCircularDependencies(dependencies) == <<>>

\* The dependencies declared by the files, in first-occurrence order, that no file
\* is named after.
findOrphanedDependencies(project) ==
  SelectSeq(Unique(Collect(project.files, LAMBDA pou : pou.dependencies)),
            LAMBDA dep : \A k \in 1..Len(project.files) : project.files[k].name # dep)

CircularIssue(cycle, now) ==
  Issue("circular-dep", now, "", "CIRCULAR_DEPENDENCY", "ERROR", cycle, 0, 95)

OrphanedIssue(dep, now) ==
  Issue("orphaned-dep", now, "", "POTENTIAL_IMPROVEMENT", "WARNING", <<dep>>, 0, 70)

performDependencyAnalysis(project, now) ==
  Collect(detectCircularDependencies(project.dependencies), LAMBDA cycle : <<CircularIssue(cycle, now)>>)
  \o Collect(findOrphanedDependencies(project), LAMBDA dep : <<OrphanedIssue(dep, now)>>)

NamingIssuesAt(pou, variable, now) ==
  IF IsIdentifier(variable.name) THEN <<>>
  ELSE <<Issue("naming", now, "-" \o variable.name, "STYLE_VIOLATION", "INFO", <<pou.name>>, 0, 90)>>

checkVariableNaming(pou, now) ==
  Collect(pou.variables, LAMBDA variable : NamingIssuesAt(pou, variable, now))

\* findUnusedVariables and checkDataTypes return nothing.
performVariableAnalysis(project, now) ==
  Collect(project.files, LAMBDA pou : checkVariableNaming(pou, now))

\* groupErrorsByBlock: the block names in first-occurrence order, each with the
\* number of its errors.
ErrorCount(errorLogs, blockName) ==
  Cardinality({k \in 1..Len(errorLogs) : errorLogs[k].blockName = blockName})

ERROR_THRESHOLD == 5

ErrorIssuesAt(errorLogs, blockName, now) ==
  IF ErrorCount(errorLogs, blockName) > ERROR_THRESHOLD
  THEN <<Issue("error-pattern", now, "-" \o blockName, "SAFETY_CONCERN", "ERROR", <<blockName>>, 0, 80)>>
  ELSE <<>>

analyzeErrorLogs(errorLogs, now) ==
  Collect(Unique([k \in 1..Len(errorLogs) |-> errorLogs[k].blockName]),
          LAMBDA blockName : ErrorIssuesAt(errorLogs, blockName, now))

\* An entry of errorLogs that is null: the row's data is the JSON text null, which
\* JSON.parse accepts.
NullLog == [blockName |-> "<null>"]

\* groupErrorsByBlock reads error.blockName of every entry: a null entry raises
\* TypeError.
groupErrorsByBlockRaises(errorLogs) == \E k \in 1..Len(errorLogs) : errorLogs[k] = NullLog

TYPE_ERROR_MESSAGE == "Cannot read properties of null (reading 'blockName')"

\* The runtime pass ends with an error instead of a list of issues.
performRuntimeAnalysisRaises(project) ==
  /\ project.runtimeData.present
  /\ Len(project.runtimeData.errorLogs) > 0
  /\ groupErrorsByBlockRaises(project.runtimeData.errorLogs)

\* analyzeTraceLogs and analyzeVariableSnapshots return nothing.
performRuntimeAnalysis(project, now) ==
  IF ~project.runtimeData.present THEN <<>>
  ELSE IF Len(project.runtimeData.errorLogs) > 0
       THEN analyzeErrorLogs(project.runtimeData.errorLogs, now) ELSE <<>>

(***************************************************************************)
(* AIAnalysisService.analyzeWithAI                                         *)
(***************************************************************************)

\* The two mock issues, before the filter on the request.
MockIssues ==
  << [id |-> "mock-1", type |-> "SAFETY_CONCERN", severity |-> "WARNING",
      pouFiles |-> <<"MotorControl">>, lineNumber |-> 15, confidence |-> 85],
     [id |-> "mock-2", type |-> "PERFORMANCE_ISSUE", severity |-> "INFO",
      pouFiles |-> <<"TemperatureControl">>, lineNumber |-> 25, confidence |-> 70] >>

generateMockAIAnalysis(project, request) ==
  SelectSeq(MockIssues,
            LAMBDA issue : /\ issue.type \in request.options.issueTypes
                           /\ issue.severity \in request.options.severityLevel)

DEFAULT_AI_CONFIDENCE == 70

\* One entry of parsed.issues made into a CodeIssue; index counts from 0.
AIIssue(draft, index, pou, now) ==
  [id |-> "ai-issue-" \o ToString(now) \o "-" \o ToString(index),
   type |-> draft.type, severity |-> draft.severity, pouFiles |-> <<pou.name>>,
   lineNumber |-> draft.lineNumber,
   confidence |-> IF draft.confidence = 0 THEN DEFAULT_AI_CONFIDENCE ELSE draft.confidence]

TextIssuesAt(line, index, pou, now) ==
  IF Includes(line, "issue") \/ Includes(line, "problem") \/ Includes(line, "warning")
  THEN << [id |-> "ai-text-" \o ToString(now) \o "-" \o ToString(index),
           type |-> "POTENTIAL_IMPROVEMENT",
           severity |-> IF Includes(line, "critical") \/ Includes(line, "error")
                        THEN "ERROR" ELSE "WARNING",
           pouFiles |-> <<pou.name>>, lineNumber |-> 0, confidence |-> 60] >>
  ELSE <<>>

parseTextResponse(lines, pou, now) ==
  Concat([k \in 1..Len(lines) |-> TextIssuesAt(lines[k], k - 1, pou, now)])

\* A reply is the JSON object found in the response (kind "json", with its issues
\* array) or a text without one (kind "text", with its lines).
parseAIResponse(reply, pou, now) ==
  IF reply.kind = "json"
  THEN [k \in 1..Len(reply.issues) |-> AIIssue(reply.issues[k], k - 1, pou, now)]
  ELSE parseTextResponse(reply.lines, pou, now)

\* A failed completion (kind "failure") is caught and gives no issue.
analyzePOUWithAI(pou, reply, now) ==
  IF reply.kind = "failure" THEN <<>> ELSE parseAIResponse(reply, pou, now)

\* parseArchitectureResponse returns nothing.
performCrossPOUAnalysis(project, request) == <<>>

Focused(project, request) ==
  SelectSeq(project.files,
            LAMBDA pou : ~(request.focusedPou # "" /\ pou.name # request.focusedPou))

analyzeWithAI(isDemoMode, reply, project, request, now) ==
  IF isDemoMode THEN generateMockAIAnalysis(project, request)
  ELSE Collect(Focused(project, request), LAMBDA pou : analyzePOUWithAI(pou, reply, now))
       \o performCrossPOUAnalysis(project, request)

(***************************************************************************)
(* ProjectService.getProject and AnalysisService.analyzeProject            *)
(***************************************************************************)

\* A file row read back: the unit with no dependencies and no instances.
mapRowToFile(row) == [row EXCEPT !.dependencies = <<>>, !.instances = <<>>]

NoProject ==
  [id |-> "", name |-> "", files |-> <<>>, dependencies |-> <<>>,
   runtimeData |-> [present |-> FALSE, errorLogs |-> <<>>]]

\* getProject: the stored project of that id with its files read back, or null.
Fetched(rows) ==
  IF rows = {} THEN [found |-> FALSE, project |-> NoProject]
  ELSE [found |-> TRUE,
        project |-> [(CHOOSE p \in rows : TRUE) EXCEPT
                       !.files = [k \in 1..Len(@) |-> mapRowToFile(@[k])]]]
getProject(db, projectId) == Fetched({p \in db : p.id = projectId})

\* A filter that forgets the type and the confidence threshold.
filterIssuesBySeverity(issues, request) ==
  SelectSeq(issues, LAMBDA issue : issue.severity \in request.options.severityLevel)

filterIssues(issues, request) ==
  SelectSeq(issues,
            LAMBDA issue : /\ issue.severity \in request.options.severityLevel
                           /\ issue.type \in request.options.issueTypes
                           /\ ~(issue.confidence < 50))

getSeverityScore(severity) ==
  CASE severity = "CRITICAL" -> 4
    [] severity = "ERROR" -> 3
    [] severity = "WARNING" -> 2
    [] severity = "INFO" -> 1
    [] OTHER -> 0

\* The score the comparator gives an issue, in hundredths.
Score(issue) == 100 * getSeverityScore(issue.severity) + issue.confidence

\* The value the comparator of analyzeProject returns for the pair (a, b).
Compare(a, b) == Score(a) - Score(b)

\* Array.prototype.sort with a comparator: a stable sort that puts a before b
\* when the comparator is negative. The place of the k-th issue is the number of
\* the issues that go before it.
Place(issues, cmp(_, _), k) ==
  1 + Cardinality({j \in 1..Len(issues) :
                     \/ cmp(issues[j], issues[k]) < 0
                     \/ (cmp(issues[j], issues[k]) = 0 /\ j < k)})
Sort(issues, cmp(_, _)) ==
  [p \in 1..Len(issues) |-> issues[CHOOSE k \in 1..Len(issues) : Place(issues, cmp, k) = p]]

CountWhere(issues, test(_)) == Len(SelectSeq(issues, test))

TotalVariables(files) ==
  Len(Concat([k \in 1..Len(files) |-> files[k].variables]))

calculateComplexityScore(project) ==
  Min(Len(project.files) * 2 + TotalVariables(project.files) + Len(project.dependencies) * 3, 100)

\* A score without its floor.
calculateSafetyScoreUnclamped(issues) ==
  100 - CountWhere(issues, LAMBDA i : i.type \in {"SAFETY_CONCERN", "RUNTIME_ERROR"}) * 10

calculateSafetyScore(issues) ==
  Max(0, 100 - CountWhere(issues, LAMBDA i : i.type \in {"SAFETY_CONCERN", "RUNTIME_ERROR"}) * 10)

calculateMaintainabilityScore(project, issues) ==
  Max(0, 100 - CountWhere(issues,
        LAMBDA i : i.type \in {"STYLE_VIOLATION", "UNUSED_VARIABLE", "CIRCULAR_DEPENDENCY"}) * 5)

generateAnalysisSummary(project, issues) ==
  [projectId |-> project.id, projectName |-> project.name,
   totalFiles |-> Len(project.files),
   totalVariables |-> TotalVariables(project.files),
   complexityScore |-> calculateComplexityScore(project),
   safetyScore |-> calculateSafetyScore(issues),
   maintainabilityScore |-> calculateMaintainabilityScore(project, issues)]

Recommend(issues, type, above, text) ==
  IF CountWhere(issues, LAMBDA i : i.type = type) > above THEN <<text>> ELSE <<>>

generateRecommendations(issues) ==
  Recommend(issues, "SAFETY_CONCERN", 0,
            "Address safety concerns immediately to prevent potential runtime errors.")
  \o Recommend(issues, "CIRCULAR_DEPENDENCY", 0,
               "Refactor circular dependencies to improve code maintainability.")
  \o Recommend(issues, "UNUSED_VARIABLE", 5,
               "Consider removing unused variables to improve code clarity.")
  \o Recommend(issues, "RUNTIME_ERROR", 3,
               "Add comprehensive error handling to prevent runtime failures.")

NoResult ==
  [totalIssues |-> 0, criticalIssues |-> 0, warnings |-> 0, issues |-> <<>>,
   summary |-> generateAnalysisSummary(NoProject, <<>>), recommendations |-> <<>>]

NoAnalysis == [status |-> "none", error |-> "", found |-> <<>>, result |-> NoResult]

\* The CodeAnalysisResult built from the filtered and sorted issues.
ResultOf(project, issues) ==
  [totalIssues |-> Len(issues),
   criticalIssues |-> CountWhere(issues, LAMBDA i : i.severity = "CRITICAL"),
   warnings |-> CountWhere(issues, LAMBDA i : i.severity = "WARNING"),
   issues |-> issues,
   summary |-> generateAnalysisSummary(project, issues),
   recommendations |-> generateRecommendations(issues)]

\* The issues of the four passes and, when suggestions are asked for, of the AI.
FoundIssues(isDemoMode, reply, project, request, now) ==
  performStructuralAnalysis(project, now)
  \o performDependencyAnalysis(project, now)
  \o performVariableAnalysis(project, now)
  \o performRuntimeAnalysis(project, now)
  \o (IF request.options.includeSuggestions
      THEN analyzeWithAI(isDemoMode, reply, project, request, now) ELSE <<>>)

Analyzed(project, request, issues) ==
  [status |-> "ok", error |-> "", found |-> issues,
   result |-> ResultOf(project, Sort(filterIssues(issues, request), Compare))]

\* analyzeProject on what getProject returned: a missing project is an error that
\* is logged and thrown again, and so is an error raised by a pass.
AnalyzeFetched(isDemoMode, reply, fetched, projectId, request, now) ==
  IF ~fetched.found
  THEN [status |-> "error", error |-> "Project not found: " \o projectId,
        found |-> <<>>, result |-> NoResult]
  ELSE IF performRuntimeAnalysisRaises(fetched.project)
  THEN [status |-> "error", error |-> TYPE_ERROR_MESSAGE, found |-> <<>>, result |-> NoResult]
  ELSE Analyzed(fetched.project, request,
                FoundIssues(isDemoMode, reply, fetched.project, request, now))

analyzeProject(db, isDemoMode, reply, projectId, request, now) ==
  AnalyzeFetched(isDemoMode, reply, getProject(db, projectId), projectId, request, now)

(***************************************************************************)
(* The projects, requests and AI replies given to the analysis             *)
(***************************************************************************)

\* Three units that call one another in a ring, with a WHILE loop, a division,
\* an array access, two divisions in one unit, a variable name that begins with a
\* digit and a FOR loop that counts down among them.
AnalysisSources ==
  << Source("PROGRAM A", <<Block("VAR", <<Decl("1st", "INT", UNDEF), Decl("r", "INT", "0")>>)>>,
            <<"WHILE a < b DO", "r := a / b;", "B(a);">>, "END_PROGRAM"),
     Source("FUNCTION_BLOCK B", <<Block("VAR_INPUT", <<Decl("i", "INT", UNDEF)>>)>>,
            <<"x := arr[i];", "y := x / 2;", "z := y / 4;", "C(1);">>, "END_FUNCTION_BLOCK"),
     Source("FUNCTION C : INT", <<>>,
            <<ForLine([v |-> "x", a |-> "5", b |-> "1"]), "A(1);">>, "END_FUNCTION") >>

\* The file rows of the three units, as the parser produced them.
StoredUnits ==
  [k \in 1..Len(AnalysisSources) |->
     parse(InitialContext, "unit.st", Render(AnalysisSources[k])).unit]

\* The rows of a project are read ordered by name.
FileLists ==
  {SelectSeq(StoredUnits, LAMBDA u : u.name \in names) :
     names \in SUBSET {StoredUnits[k].name : k \in 1..Len(StoredUnits)}}

\* The edges of the dependency graph: a unit and a unit of the project it calls.
EdgesOf(files) ==
  Collect(files,
          LAMBDA u : SelectSeq([k \in 1..Len(u.dependencies) |->
                                  [source |-> u.name, target |-> u.dependencies[k]]],
                               LAMBDA e : \E j \in 1..Len(files) : files[j].name = e.target))

MaxErrors == 6

ErrorLogsOf(blockName, n) == [k \in 1..n |-> [blockName |-> blockName]]

Runtime(n, m) ==
  [present |-> TRUE, errorLogs |-> ErrorLogsOf("A", n) \o ErrorLogsOf("B", m)]

MaxErrorBlocks == 11

\* Error logs of MaxErrorBlocks further blocks, each above the threshold.
RuntimeOfMany ==
  [present |-> TRUE,
   errorLogs |-> Concat([k \in 1..MaxErrorBlocks |-> ErrorLogsOf("M" \o ToString(k), MaxErrors)])]

\* Error logs with a null entry among them.
RuntimeWithNull ==
  [present |-> TRUE, errorLogs |-> Append(ErrorLogsOf("A", MaxErrors), NullLog)]

\* The runtime data of a project: none, or error logs of one, two or many blocks,
\* or error logs with a null entry.
RuntimeOptions ==
  {[present |-> FALSE, errorLogs |-> <<>>],
   Runtime(MaxErrors - 1, 0), Runtime(MaxErrors, 0), Runtime(MaxErrors, MaxErrors),
   RuntimeOfMany, RuntimeWithNull}

PROJECT_ID == "p1"
ProjectIds == {PROJECT_ID, "p2"}

Projects ==
  {[id |-> PROJECT_ID, name |-> "Line 1", files |-> files, dependencies |-> EdgesOf(files),
    runtimeData |-> runtime] : files \in FileLists, runtime \in RuntimeOptions}

ISSUE_SEVERITIES == {"CRITICAL", "ERROR", "WARNING", "INFO"}

ISSUE_TYPES ==
  {"SYNTAX_ERROR", "RUNTIME_ERROR", "LOGIC_ERROR", "PERFORMANCE_ISSUE", "STYLE_VIOLATION",
   "SAFETY_CONCERN", "POTENTIAL_IMPROVEMENT", "CIRCULAR_DEPENDENCY", "UNUSED_VARIABLE"}

SeveritySets == {ISSUE_SEVERITIES, {"CRITICAL"}, {"WARNING", "INFO"}}

TypeSets == {ISSUE_TYPES, {"SAFETY_CONCERN", "RUNTIME_ERROR", "CIRCULAR_DEPENDENCY"}}

Requests ==
  {[focusedPou |-> focused,
    options |-> [severityLevel |-> severities, issueTypes |-> types,
                 includeSuggestions |-> suggestions]] :
     focused \in {"", "B"}, severities \in SeveritySets, types \in TypeSets,
     suggestions \in BOOLEAN}

NoRequest ==
  [projectId |-> "", focusedPou |-> "",
   options |-> [severityLevel |-> {}, issueTypes |-> {}, includeSuggestions |-> FALSE]]

\* The entries an AI reply may hold: a confidence of 0 stands for one that is
\* absent or zero.
Drafts ==
  {[type |-> "SAFETY_CONCERN", severity |-> "CRITICAL", lineNumber |-> 3, confidence |-> 95],
   [type |-> "LOGIC_ERROR", severity |-> "WARNING", lineNumber |-> 1, confidence |-> 30],
   [type |-> "OTHER", severity |-> "INFO", lineNumber |-> 2, confidence |-> 0]}

MaxDrafts == 2

\* The replies list their entries by rising line number.
Ascending(q) == \A i, j \in 1..Len(q) : i < j => q[i].lineNumber < q[j].lineNumber

Reply(kind, issues, lines) == [kind |-> kind, issues |-> issues, lines |-> lines]

\* Every call of the AI service fails.
NoReply == Reply("failure", <<>>, <<>>)

Replies ==
  {NoReply,
   Reply("text", <<>>, <<"Summary", "a critical issue in line 3", "a warning about naming">>)}
  \cup {Reply("json", q, <<>>) : q \in {q \in SeqsUpTo(Drafts, MaxDrafts) : Ascending(q)}}

DateNow == 1

(***************************************************************************)
(* The parser and the analysis service in use                              *)
(***************************************************************************)

VARIABLES
  context,    \* STParser.context
  source,     \* the source of the last call of parse
  fileName,   \* the arguments of the last call of parse
  content,
  outcome,    \* what the last call returned or threw
  memo,       \* the arguments and the outcome of the first call
  calls,      \* the number of calls made
  db,         \* the stored projects
  isDemoMode, \* AIAnalysisService.isDemoMode
  request,    \* the project id and the request of the analysis under way
  reply,      \* what the AI service answers to the calls of that analysis
  analysis    \* what analyzeProject returned or threw, with the unfiltered issues

parserVars == <<context, source, fileName, content, outcome, memo, calls>>
analysisVars == <<db, isDemoMode, request, reply, analysis>>
vars == <<context, source, fileName, content, outcome, memo, calls,
          db, isDemoMode, request, reply, analysis>>

NoOutcome == [status |-> "none", error |-> "", unit |-> NoUnit]

InitParser ==
  /\ context = InitialContext
  /\ source = NoSource
  /\ fileName = ""
  /\ content = ""
  /\ outcome = NoOutcome
  /\ memo = [fileName |-> "", content |-> "", outcome |-> NoOutcome]
  /\ calls = 0

InitService ==
  /\ db = {}
  /\ request = NoRequest
  /\ reply = NoReply
  /\ analysis = NoAnalysis

Init == InitParser /\ InitService /\ isDemoMode = FALSE

\* parser.parse(f, text): the call returns a unit or throws.
Return(f, text, r) ==
  /\ context' = r.context
  /\ fileName' = f
  /\ content' = text
  /\ outcome' = [status |-> r.status, error |-> r.error, unit |-> r.unit]
  /\ calls' = calls + 1
  /\ UNCHANGED analysisVars

Call(f, text) == Return(f, text, parse(context, f, text))

\* The first call on a new parser.
Parse ==
  /\ calls = 0
  /\ \E d \in Sources, f \in FileNames :
       /\ Call(f, Render(d))
       /\ source' = d
       /\ memo' = [fileName |-> f, content |-> Render(d), outcome |-> outcome']

\* A later call with another text.
ParseOther ==
  /\ calls \in 1..(MaxCalls - 1)
  /\ \E d \in OtherSources, f \in FileNames :
       /\ Call(f, Render(d))
       /\ source' = d
       /\ UNCHANGED memo

\* A later call with the arguments of the first one.
ParseAgain ==
  /\ calls \in 1..(MaxCalls - 1)
  /\ Call(memo.fileName, memo.content)
  /\ UNCHANGED <<source, memo>>

Next == Parse \/ ParseOther \/ ParseAgain

Spec == Init /\ [][Next]_vars

\* The service starts with an empty store, in demo mode or not.
InitAnalysis == InitParser /\ InitService /\ isDemoMode \in BOOLEAN

\* A project and its files, dependencies and runtime data are stored.
CreateProject ==
  /\ db = {}
  /\ \E p \in Projects : db' = {p}
  /\ UNCHANGED <<isDemoMode, request, reply, analysis>>
  /\ UNCHANGED parserVars

\* The AI is asked only when the project is found and its passes raise no error,
\* the request includes suggestions and the service is not in demo mode.
RepliesFor(projectId, r) ==
  IF /\ r.options.includeSuggestions /\ ~isDemoMode
     /\ getProject(db, projectId).found
     /\ ~performRuntimeAnalysisRaises(getProject(db, projectId).project)
  THEN Replies ELSE {NoReply}

\* analysisService.analyzeProject(projectId, request): it returns a result or throws.
Analyze ==
  /\ analysis.status = "none"
  /\ \E projectId \in ProjectIds, r \in Requests :
       \E answer \in RepliesFor(projectId, r) :
         /\ analysis' = analyzeProject(db, isDemoMode, answer, projectId, r, DateNow)
         /\ request' = [projectId |-> projectId, focusedPou |-> r.focusedPou, options |-> r.options]
         /\ reply' = answer
  /\ UNCHANGED <<db, isDemoMode>>
  /\ UNCHANGED parserVars

\* The caller takes the result or the error.
Respond ==
  /\ analysis.status # "none"
  /\ analysis' = NoAnalysis
  /\ request' = NoRequest
  /\ reply' = NoReply
  /\ UNCHANGED <<db, isDemoMode>>
  /\ UNCHANGED parserVars

NextAnalysis == CreateProject \/ Analyze \/ Respond

SpecAnalysis == InitAnalysis /\ [][NextAnalysis]_vars

(***************************************************************************)
(* Properties of analyzeProject                                            *)
(***************************************************************************)

\* The place of an issue of the result among the issues the passes found.
DiscoveryIndex(issue) ==
  CHOOSE k \in 1..Len(analysis.found) : analysis.found[k] = issue

\* C1: in every result of analyze the issues are in non-increasing order of
\* severityScore(severity) + confidence, and issues of equal score keep the order
\* in which the passes discovered them.
C1_IssuesByDescendingScore ==
  analysis.status = "ok" =>
    \A i, j \in 1..Len(analysis.result.issues) :
      i < j =>
        /\ Score(analysis.result.issues[i]) >= Score(analysis.result.issues[j])
        /\ Score(analysis.result.issues[i]) = Score(analysis.result.issues[j])
             => DiscoveryIndex(analysis.result.issues[i]) < DiscoveryIndex(analysis.result.issues[j])

\* The stored project an analysis was asked for.
RequestedProject == CHOOSE p \in db : p.id = request.projectId

\* The units' dependency sets as a relation over the units of the project.
DependsOn(files) ==
  {e \in UNION {{<<files[k].name, files[k].dependencies[d]>> :
                   d \in 1..Len(files[k].dependencies)} : k \in 1..Len(files)} :
     \E j \in 1..Len(files) : files[j].name = e[2]}

\* The units reached from the units of S in one to n steps.
RECURSIVE ReachedFrom(_, _, _)
ReachedFrom(E, S, n) ==
  IF n = 0 THEN {}
  ELSE {e[2] : e \in {e \in E : e[1] \in S}}
       \cup ReachedFrom(E, {e[2] : e \in {e \in E : e[1] \in S}}, n - 1)

\* The units that lie on a dependency cycle.
CycleUnits(files) ==
  {files[k].name : k \in {k \in 1..Len(files) :
      files[k].name \in ReachedFrom(DependsOn(files), {files[k].name}, Len(files))}}

CircularIssues(issues) == SelectSeq(issues, LAMBDA i : i.type = "CIRCULAR_DEPENDENCY")

SetOf(q) == {q[k] : k \in 1..Len(q)}

\* C2: for a project whose units' dependency sets form a cycle, analyze with all
\* severities and types requested reports exactly one CircularDependency issue
\* whose unit list is the units of that cycle; for an acyclic project it reports
\* none.
C2_CycleReportedOnce ==
  (/\ analysis.status = "ok"
   /\ request.options.severityLevel = ISSUE_SEVERITIES
   /\ request.options.issueTypes = ISSUE_TYPES)
  => IF CycleUnits(RequestedProject.files) = {}
     THEN Len(CircularIssues(analysis.result.issues)) = 0
     ELSE /\ Len(CircularIssues(analysis.result.issues)) = 1
          /\ SetOf(CircularIssues(analysis.result.issues)[1].pouFiles)
               = CycleUnits(RequestedProject.files)

\* C3: each issue in the result of analyze has a severity of the request's
\* severity set, a type of the request's issue-type set and a confidence of at
\* least 0.5, whichever pass produced it.
C3_ResultWithinRequest ==
  analysis.status = "ok" =>
    \A k \in 1..Len(analysis.result.issues) :
      /\ analysis.result.issues[k].severity \in request.options.severityLevel
      /\ analysis.result.issues[k].type \in request.options.issueTypes
      /\ analysis.result.issues[k].confidence >= 50

\* A request for Critical issues only whose suggestion pass found an issue of
\* another severity and one of low confidence, and whose result is not empty.
C3_Witness ==
  /\ analysis.status = "ok"
  /\ request.options.severityLevel = {"CRITICAL"}
  /\ request.options.includeSuggestions
  /\ \E k \in 1..Len(analysis.found) :
       /\ StartsWith(analysis.found[k].id, "ai-issue")
       /\ analysis.found[k].severity # "CRITICAL"
       /\ analysis.found[k].confidence < 50
  /\ \E k \in 1..Len(analysis.found) :
       /\ ~StartsWith(analysis.found[k].id, "ai-issue")
       /\ analysis.found[k].severity # "CRITICAL"
  /\ Len(analysis.result.issues) > 0

\* C4: analyze never fails: it returns a result and never raises an error to its
\* caller.
C4_AnalyzeNeverFails == analysis.status # "error"

(***************************************************************************)
(* Properties of parse                                                     *)
(***************************************************************************)

\* The text once its line comments and block comments are removed.
WithoutComments(text) == RemoveBlockComments(RemoveLineComments(text, 1), 1)

\* At index p of t stands the keyword kw, in any letter case, followed by white
\* space and then by an identifier (a run of letters, digits and underscores).
DeclarationAt(t, p, kw) ==
  /\ ToUpperCase(Sub(t, p, p + Len(kw) - 1)) = kw
  /\ \E q \in (p + Len(kw) + 1)..Len(t) :
       /\ \A k \in (p + Len(kw))..(q - 1) : IsSpace(Ch(t, k))
       /\ IsWord(Ch(t, q))

DeclaresUnit(t) ==
  \E p \in 1..Len(t), kw \in {"PROGRAM", "FUNCTION_BLOCK", "FUNCTION"} : DeclarationAt(t, p, kw)

\* C5: for every source text that, after comment removal, contains no occurrence
\* of PROGRAM, FUNCTION_BLOCK or FUNCTION followed by an identifier, parse fails
\* with the no-unit-declaration error and returns no unit.
C5_NoDeclarationFails ==
  (outcome.status # "none" /\ ~DeclaresUnit(WithoutComments(content)))
  => (outcome.status = "error" /\ outcome.error = NO_POU_MESSAGE /\ outcome.unit = NoUnit)

\* A parse that failed on a text whose only declaration stands in a comment.
C5_Witness ==
  /\ outcome.status = "error"
  /\ DeclaresUnit(content)
  /\ ~DeclaresUnit(WithoutComments(content))

\* C6: for every source text that contains a unit declaration, parse returns a
\* unit: malformed variable lines, unrecognized statement lines and expressions of
\* unmatched shape never make parse raise.
C6_DeclarationGivesUnit ==
  (outcome.status # "none" /\ DeclaresUnit(WithoutComments(content)))
  => (outcome.status = "ok" /\ outcome.error = "" /\ outcome.unit # NoUnit)

\* A unit returned for the text with the three anomalies: the malformed variable
\* line is not recorded and the two body lines left no node.
C6_Witness ==
  /\ source = AnomalySource
  /\ outcome.status = "ok"
  /\ Len(outcome.unit.variables) = 1
  /\ outcome.unit.variables[1].name = "x"
  /\ \A k \in 1..Len(outcome.unit.ast.children) : outcome.unit.ast.children[k].name # "total"

ExpectedScope(kw) ==
  CASE kw = "VAR_INPUT" -> "INPUT"
    [] kw = "VAR_OUTPUT" -> "OUTPUT"
    [] kw = "VAR" -> "LOCAL"
    [] OTHER -> ""

\* C8: each variable declared inside a VAR_INPUT block is recorded with scope
\* Input, each inside VAR_OUTPUT with scope Output and each inside a bare VAR block
\* with scope Local, whatever the unit name and the other blocks are.
C8_ScopeFollowsBlock ==
  outcome.status = "ok" =>
    \A b \in 1..Len(source.blocks) :
      \A d \in 1..Len(source.blocks[b].decls) :
        \A v \in 1..Len(outcome.unit.variables) :
          outcome.unit.variables[v].name = source.blocks[b].decls[d].name
            => outcome.unit.variables[v].scope = ExpectedScope(source.blocks[b].kw)

\* 10 to the power n.
RECURSIVE Pow10(_)
Pow10(n) == IF n = 0 THEN 1 ELSE 10 * Pow10(n - 1)

\* The token without its leading minus sign.
Unsigned(t) == IF Ch(t, 1) = "-" THEN Sub(t, 2, Len(t)) ELSE t

Sign(t) == IF Ch(t, 1) = "-" THEN -1 ELSE 1

AllDigits(t) == Len(t) > 0 /\ \A k \in 1..Len(t) : IsDigit(Ch(t, k))

LooksInteger(t) == AllDigits(Unsigned(t))

\* The places of the decimal point in the unsigned token.
Points(t) == {k \in 1..Len(Unsigned(t)) : Ch(Unsigned(t), k) = "."}

LooksDecimal(t) ==
  /\ Cardinality(Points(t)) = 1
  /\ \E d \in Points(t) :
       /\ AllDigits(Sub(Unsigned(t), 1, d - 1))
       /\ AllDigits(Sub(Unsigned(t), d + 1, Len(Unsigned(t))))

LooksQuoted(t) ==
  \E q \in {"'", "\""} : Len(t) >= 1 /\ Ch(t, 1) = q /\ Ch(t, Len(t)) = q

\* The value v is the number the decimal token t writes: with f digits after the
\* point and D the number its digits write, v.num / 10^v.scale = D / 10^f.
IsNumberOf(v, t, f, digits) ==
  /\ v.kind = "number"
  /\ v.num * Pow10(f) = Sign(t) * DigitsToNat(digits) * Pow10(v.scale)

\* The value v is what the token t is classified as.
ClassifiedAs(v, t) ==
  IF t \in {"TRUE", "FALSE"} THEN v.kind = "boolean" /\ (v.num = 1 <=> t = "TRUE")
  ELSE IF LooksInteger(t) THEN IsNumberOf(v, t, 0, Unsigned(t)) /\ v.scale = 0
  ELSE IF LooksDecimal(t)
       THEN \E d \in Points(t) :
              IsNumberOf(v, t, Len(Unsigned(t)) - d,
                         Sub(Unsigned(t), 1, d - 1) \o Sub(Unsigned(t), d + 1, Len(Unsigned(t))))
  ELSE IF LooksQuoted(t) THEN v.kind = "string" /\ v.str = Sub(t, 2, Len(t) - 1)
  ELSE v.kind = "string" /\ v.str = t

\* C9: the initial value of a parsed variable is classified by its token: TRUE
\* and FALSE become booleans, an integer-looking token an integer, a
\* decimal-looking token a float, a quoted token a string with the quotes
\* stripped, and every other token is kept unchanged.
C9_InitialValueClassified ==
  outcome.status = "ok" =>
    \A b \in 1..Len(source.blocks) :
      \A d \in 1..Len(source.blocks[b].decls) :
        source.blocks[b].decls[d].init # UNDEF =>
          \E v \in 1..Len(outcome.unit.variables) :
            /\ outcome.unit.variables[v].name = source.blocks[b].decls[d].name
            /\ ClassifiedAs(outcome.unit.variables[v].initialValue,
                            source.blocks[b].decls[d].init)

\* The initial values of the variable v of a returned unit.
ValuesOfV ==
  {outcome.unit.variables[k].initialValue :
     k \in {k \in 1..Len(outcome.unit.variables) : outcome.unit.variables[k].name = "v"}}

\* A unit whose variable v was declared with a quoted token and holds the string
\* without the quotes.
C9_Witness ==
  /\ outcome.status = "ok"
  /\ source \in TokenSources
  /\ source.blocks[1].decls[1].init = "'abc'"
  /\ ValuesOfV = {StringValue("abc")}

\* The built-in functions the dependencies must not name.
BuiltInFunctions == {"MAX", "ABS"}

\* C10: no name in the parsed unit's dependencies is a built-in function name
\* such as MAX or ABS, whether the built-in is called as a standalone statement or
\* inside an assignment.
C10_NoBuiltInDependency ==
  outcome.status = "ok" =>
    \A k \in 1..Len(outcome.unit.dependencies) :
      ToUpperCase(outcome.unit.dependencies[k]) \notin BuiltInFunctions

(***************************************************************************)
(* Properties of the tree and the dependencies                             *)
(***************************************************************************)

\* The children of the root of the returned unit's tree.
RootChildren == outcome.unit.ast.children

\* The node a FOR header is to give: the counter as name, the bounds as value and
\* one Variable child named after the counter.
IsForNode(n, l) ==
  /\ n.type = "FOR_LOOP"
  /\ n.name = l.v
  /\ n.value = l.a \o " TO " \o l.b
  /\ Len(n.children) = 1
  /\ n.children[1].type = "VARIABLE"
  /\ n.children[1].name = l.v

\* C11: a body line FOR v := a TO b DO, a and b integer literals, produces exactly
\* one FOR_LOOP node under the root of the tree, with name v, value "a TO b" and a
\* single Variable child named v.
C11_ForLineGivesForLoop ==
  (outcome.status = "ok" /\ source.foot # "") =>
    \A l \in ForLoops :
      Cardinality({k \in 1..Len(RootChildren) : IsForNode(RootChildren[k], l)})
        = Cardinality({k \in 1..Len(source.body) : Trim(source.body[k]) = ForLine(l)})

\* The lines of a unit's text that are FOR headers whose start is not below the end.
ReversedLoops(lines) ==
  {k \in 1..Len(lines) :
     \E l \in ForLoops : /\ DigitsToNat(l.a) >= DigitsToNat(l.b)
                         /\ Trim(lines[k]) = ForLine(l)}

\* The issues of the result that flag a loop of the unit: Warning, LogicError,
\* confidence 0.8, naming the unit.
LoopWarnings(issues, name) ==
  {k \in 1..Len(issues) :
     /\ issues[k].type = "LOGIC_ERROR" /\ issues[k].severity = "WARNING"
     /\ issues[k].confidence = 80 /\ issues[k].pouFiles = <<name>>}

\* C12: a unit parsed from a text whose body holds a FOR line with start >= end
\* (FOR x := 5 TO 1 DO), analyzed with all severities and issue types requested,
\* gets exactly one Warning/LogicError issue of confidence 0.8 for that loop,
\* naming the unit.
C12_ReversedForFlagged ==
  (/\ analysis.status = "ok"
   /\ request.options.severityLevel = ISSUE_SEVERITIES
   /\ request.options.issueTypes = ISSUE_TYPES)
  => \A k \in 1..Len(RequestedProject.files) :
       Cardinality(LoopWarnings(analysis.result.issues, RequestedProject.files[k].name))
         = Cardinality(ReversedLoops(Split(RequestedProject.files[k].content, "\n")))

\* The two sides of an assignment line: the text before the first := and the text
\* after it without the closing semicolon.
TargetOf(line) == Trim(Sub(line, 1, IndexOf(line, ":=", 1) - 1))

ValueOf(line) ==
  LET t == Trim(Sub(line, IndexOf(line, ":=", 1) + 2, Len(line))) IN
  IF EndsWith(t, ";") THEN Trim(Sub(t, 1, Len(t) - 1)) ELSE t

\* The names followed by an opening parenthesis in a text: the functions it calls,
\* nested calls included.
CalledIn(t) ==
  {Sub(t, p, SkipWord(t, p) - 1) :
     p \in {p \in 1..Len(t) : /\ IsWord(Ch(t, p)) /\ ~IsDigit(Ch(t, p))
                              /\ (p = 1 \/ ~IsWord(Ch(t, p - 1)))
                              /\ Ch(t, SkipWord(t, p)) = "("}}

\* The functions that are not built in.
UserDefined(names) ==
  {f \in names : ToUpperCase(f) \notin KeywordSet \cup BuiltInFunctions}

\* The user-defined functions called on the right-hand sides of the assignments
\* of a body.
CalledInAssignments(body) ==
  UserDefined(UNION {CalledIn(ValueOf(body[k])) :
                       k \in {k \in 1..Len(body) : Includes(body[k], ":=")}})

\* C13: every user-defined function called on the right-hand side of an
\* assignment, a call nested as an argument of another call included, appears
\* exactly once in the dependencies of the parsed unit; for a body made of
\* assignments only, nothing else appears there.
C13_AssignedCallsAreDependencies ==
  (outcome.status = "ok" /\ source.foot # "") =>
    /\ Distinct(outcome.unit.dependencies)
    /\ CalledInAssignments(source.body) \subseteq SetOf(outcome.unit.dependencies)
    /\ (\A k \in 1..Len(source.body) : Includes(source.body[k], ":="))
         => SetOf(outcome.unit.dependencies) \subseteq CalledInAssignments(source.body)

\* An assignment line whose right-hand side is one call, name(arguments).
AssignsCall(line) ==
  /\ Includes(line, ":=")
  /\ IndexOf(ValueOf(line), "(", 1) > 1
  /\ IsIdentifier(Sub(ValueOf(line), 1, IndexOf(ValueOf(line), "(", 1) - 1))
  /\ EndsWith(ValueOf(line), ")")

CalleeOf(line) == Sub(ValueOf(line), 1, IndexOf(ValueOf(line), "(", 1) - 1)

\* The node of an assignment of a call: two children, the target variable and
\* the call.
IsCallAssignment(n, target, f) ==
  /\ n.type = "ASSIGNMENT"
  /\ Len(n.children) = 2
  /\ n.children[1].type = "VARIABLE" /\ n.children[1].name = target
  /\ n.children[2].type = "FUNCTION_CALL" /\ n.children[2].name = f

\* C14: for an assignment line target := f(args); the ASSIGNMENT node has exactly
\* two children, the first a Variable node named target and the second a
\* FUNCTION_CALL node whose name is f.
C14_AssignedCallIsCallNode ==
  (outcome.status = "ok" /\ source.foot # "") =>
    \A k \in 1..Len(source.body) :
      AssignsCall(source.body[k]) =>
        \E c \in 1..Len(RootChildren) :
          IsCallAssignment(RootChildren[c], TargetOf(source.body[k]), CalleeOf(source.body[k]))

(***************************************************************************)
(* Properties of the declarations                                          *)
(***************************************************************************)

\* The name a declaration line begins with.
DeclaredName(line) == Sub(line, 1, SkipWord(line, 1) - 1)

\* A line of the form name : type := value; // text
IsCommentedDeclaration(line) ==
  /\ SkipWord(line, 1) > 1
  /\ Ch(line, SkipSpace(line, SkipWord(line, 1))) = ":"
  /\ IndexOf(line, "//", 1) # 0
  /\ Includes(Sub(line, 1, IndexOf(line, "//", 1) - 1), ":=")
  /\ EndsWith(Trim(Sub(line, 1, IndexOf(line, "//", 1) - 1)), ";")

\* The text of the trailing comment.
CommentOf(line) == Trim(Sub(line, IndexOf(line, "//", 1) + 2, Len(line)))

\* C15: a declaration line name : type := value; // text inside a VAR block
\* yields a Variable whose description is the trailing comment text, trimmed.
C15_TrailingCommentDescribes ==
  outcome.status = "ok" =>
    \A line \in {Trim(Split(content, "\n")[k]) : k \in 1..Len(Split(content, "\n"))} :
      IsCommentedDeclaration(line) =>
        \E v \in 1..Len(outcome.unit.variables) :
          /\ outcome.unit.variables[v].name = DeclaredName(line)
          /\ outcome.unit.variables[v].description = CommentOf(line)

\* A declaration line without its terminating semicolon: name : type
IsUnterminatedDeclaration(line) ==
  /\ SkipWord(line, 1) > 1
  /\ Ch(line, SkipSpace(line, SkipWord(line, 1))) = ":"
  /\ ~Includes(line, ";")
  /\ ~Includes(line, ":=")

\* The names declared by the unterminated lines of a text.
UnterminatedNames(text) ==
  {DeclaredName(Trim(Split(text, "\n")[k])) :
     k \in {k \in 1..Len(Split(text, "\n")) :
              IsUnterminatedDeclaration(Trim(Split(text, "\n")[k]))}}

\* C16: for a VAR block whose declaration lines are malformed by omitting the
\* terminating semicolon (x: INT), parse does not fail and records no Variable for
\* those lines.
C16_UnterminatedNotRecorded ==
  (outcome.status # "none" /\ UnterminatedNames(content) # {}) =>
    /\ outcome.status = "ok"
    /\ \A v \in 1..Len(outcome.unit.variables) :
         outcome.unit.variables[v].name \notin UnterminatedNames(content)

(***************************************************************************)
(* Properties of the expressions                                           *)
(***************************************************************************)

\* An expression text that is no literal and no identifier and that no operator
\* of the list splits in exactly two operands.
Unresolved(e) == ~isLiteral(e) /\ ~IsIdentifier(e) /\ SplittingOperator(e) = 0

\* The node of the assignment of a body line, with the node of its expression as
\* second child; an unresolved expression is a Variable named after its text.
IsAssignmentOf(n, line) ==
  /\ n.type = "ASSIGNMENT"
  /\ n.name = TargetOf(line)
  /\ n.value = ValueOf(line)
  /\ Len(n.children) = 2
  /\ n.children[2].type \in {"LITERAL", "VARIABLE", "BINARY_EXPRESSION"}
  /\ Unresolved(ValueOf(line))
       => (n.children[2].type = "VARIABLE" /\ n.children[2].name = ValueOf(line))

\* C20: expression parsing ends with a node for every expression text: when no
\* operator of the fixed list splits the text in exactly two operands (the same
\* operator twice, as in a + b + c, or an operator without its leading space),
\* the node is a Variable whose name is the whole expression text.
C20_ExpressionAlwaysNode ==
  (outcome.status = "ok" /\ source.foot # "") =>
    \A k \in 1..Len(source.body) :
      Includes(source.body[k], ":=") =>
        \E c \in 1..Len(RootChildren) : IsAssignmentOf(RootChildren[c], source.body[k])

(***************************************************************************)
(* Properties of the summary and of the failures of collaborators          *)
(***************************************************************************)

\* The project as analyze reads it.
AnalyzedProject == getProject(db, request.projectId).project

\* The number of variables of the first n units.
RECURSIVE VariableCount(_, _)
VariableCount(files, n) ==
  IF n = 0 THEN 0 ELSE VariableCount(files, n - 1) + Len(files[n].variables)

\* The number of issues of the given types.
IssueCount(issues, types) == Cardinality({k \in 1..Len(issues) : issues[k].type \in types})

SafetyCount == IssueCount(analysis.result.issues, {"SAFETY_CONCERN", "RUNTIME_ERROR"})

MaintainabilityCount ==
  IssueCount(analysis.result.issues, {"STYLE_VIOLATION", "UNUSED_VARIABLE", "CIRCULAR_DEPENDENCY"})

ProjectWasFound ==
  analysis.status # "none" /\ ~StartsWith(analysis.error, "Project not found")

\* The issues the suggestion pass contributed to those the passes found.
SuggestionsOf(issues) ==
  SelectSeq(issues, LAMBDA i : StartsWith(i.id, "ai-") \/ StartsWith(i.id, "mock-"))

\* C18: when suggestions are requested and the live model is absent or every call
\* of the model fails, the suggestion pass returns the output of the
\* deterministic rule-based fallback generator for the request and raises no
\* error: a failure of the model alone never makes the pass return an empty list.
C18_FallbackWhenModelFails ==
  (/\ ProjectWasFound
   /\ ~performRuntimeAnalysisRaises(AnalyzedProject)
   /\ request.options.includeSuggestions
   /\ (isDemoMode \/ reply.kind = "failure"))
  => /\ analysis.status = "ok"
     /\ SuggestionsOf(analysis.found) = generateMockAIAnalysis(AnalyzedProject, request)

\* The issues of the passes other than the runtime pass.
OtherPassesIssues ==
  performStructuralAnalysis(AnalyzedProject, DateNow)
  \o performDependencyAnalysis(AnalyzedProject, DateNow)
  \o performVariableAnalysis(AnalyzedProject, DateNow)
  \o (IF request.options.includeSuggestions
      THEN analyzeWithAI(isDemoMode, reply, AnalyzedProject, request, DateNow) ELSE <<>>)

\* C19: if a single pass of the analysis throws, analyze still completes: the
\* throwing pass contributes no issue and the result holds exactly the issues of
\* all the other passes, filtered and sorted.
C19_ThrowingPassIsolated ==
  (/\ ProjectWasFound
   /\ performRuntimeAnalysisRaises(AnalyzedProject))
  => /\ analysis.status = "ok"
     /\ Len(analysis.result.issues) = Len(filterIssues(OtherPassesIssues, request))
     /\ SetOf(analysis.result.issues) = SetOf(filterIssues(OtherPassesIssues, request))

(***************************************************************************)
(* Properties of the body and of the statements                            *)
(***************************************************************************)

\* The lines of the text the parser works on, comments removed.
TextLines == Split(preprocessContent(content), "\n")

UpperLine(lines, i) == ToUpperCase(Trim(lines[i]))

\* The last line that closes a variable block; 0 when the text has no block.
LastEndVar(lines) ==
  LastOf({i \in 1..Len(lines) : StartsWith(UpperLine(lines, i), "END_VAR")}, 0)

\* The line of the unit's terminating keyword; past the last line when the text
\* has none.
TerminatorLine(lines) ==
  LastOf({i \in 1..Len(lines) :
            \E k \in 1..Len(POU_KEYWORDS) :
              StartsWith(UpperLine(lines, i), "END_" \o POU_KEYWORDS[k])},
         Len(lines) + 1)

\* The line of the text a node of the tree stands on: a node carries the number of
\* its line within the body, and the body begins at the line extractBody cuts at.
TextLineOf(n) == findBodyStartIndex(TextLines) + n.lineNumber - 1

\* C21: every child of the root of the tree comes from a line located after the
\* end of all the variable blocks and before the unit's terminating keyword: no
\* line inside VAR ... END_VAR (x : INT := 0;) produces a node.
C21_NodesComeFromBody ==
  outcome.status = "ok" =>
    \A c \in 1..Len(RootChildren) :
      /\ TextLineOf(RootChildren[c]) > LastEndVar(TextLines)
      /\ TextLineOf(RootChildren[c]) < TerminatorLine(TextLines)

\* A line of the form identifier(args) without := that begins with none of the
\* statement keywords, the identifier being no reserved keyword.
IsCallLine(line) ==
  /\ ~Includes(line, ":=")
  /\ \A kw \in {"IF", "FOR", "WHILE", "CASE", "REPEAT"} : ~StartsWith(line, kw)
  /\ SkipWord(line, 1) > 1
  /\ Ch(line, SkipWord(line, 1)) = "("
  /\ IndexOf(line, ")", 1) # 0
  /\ ToUpperCase(DeclaredName(line)) \notin KeywordSet

\* The arguments of a call line: the parts the commas separate.
ArgumentsOf(line) == Split(Sub(line, IndexOf(line, "(", 1) + 1, IndexOf(line, ")", 1) - 1), ",")

\* C22: a body line identifier(args) that contains no := and does not start with
\* IF, FOR, WHILE, CASE or REPEAT produces a FUNCTION_CALL node named identifier
\* with one child per comma-separated argument, for every identifier that is not
\* equal to a reserved keyword.
C22_CallLineGivesCallNode ==
  (outcome.status = "ok" /\ source.foot # "") =>
    \A k \in 1..Len(source.body) :
      IsCallLine(Trim(source.body[k])) =>
        \E c \in 1..Len(RootChildren) :
          /\ RootChildren[c].type = "FUNCTION_CALL"
          /\ RootChildren[c].name = DeclaredName(Trim(source.body[k]))
          /\ Len(RootChildren[c].children) = Len(ArgumentsOf(Trim(source.body[k])))

(***************************************************************************)
(* Properties of the header and of the variables                           *)
(***************************************************************************)

\* The lines of the text as the caller gave it.
ContentLines == Split(content, "\n")

IsCommentLine(line) == StartsWith(Trim(line), "//")

\* The line of the unit declaration: the first line outside comments that holds one.
DeclarationLine(lines) ==
  FirstOf({k \in 1..Len(lines) : ~IsCommentLine(lines[k]) /\ DeclaresUnit(WithoutComments(lines[k]))}, 0)

\* The contiguous comment lines that immediately precede line d.
CommentsAbove(lines, d) ==
  LET first == FirstOf({j \in 1..(d - 1) : \A i \in j..(d - 1) : IsCommentLine(lines[i])}, d)
  IN  [k \in 1..(d - first) |-> Trim(Sub(Trim(lines[first + k - 1]), 3, Len(Trim(lines[first + k - 1]))))]

\* C23: when the unit declaration is immediately preceded by one or more
\* contiguous comment lines, the description of the parsed unit is the text of
\* those comments joined in source order.
C23_DescriptionFromComments ==
  (outcome.status = "ok" /\ DeclarationLine(ContentLines) > 1
     /\ Len(CommentsAbove(ContentLines, DeclarationLine(ContentLines))) > 0)
  => outcome.unit.description = Join(CommentsAbove(ContentLines, DeclarationLine(ContentLines)), " ")

\* Line i of the text is a declaration, name : type ..., of a variable block.
IsDeclarationLine(lines, i) ==
  LET line == Trim(lines[i])
      colon == SkipSpace(line, SkipWord(line, 1))
  IN  /\ i < LastEndVar(lines)
      /\ SkipWord(line, 1) > 1
      /\ Ch(line, colon) = ":" /\ Ch(line, colon + 1) # "="

\* A VAR CONSTANT marker stands within the two lines above line i.
MarkerAbove(lines, i) ==
  \E j \in 1..(i - 1) : j >= i - 2 /\ Includes(ToUpperCase(lines[j]), "VAR CONSTANT")

\* The variables of the returned unit that carry the name declared on a line.
RecordedAs(line) ==
  {v \in 1..Len(outcome.unit.variables) :
     outcome.unit.variables[v].name = DeclaredName(Trim(line))}

\* C24: a variable whose declaration line lies within the two lines following a
\* VAR CONSTANT marker is recorded with isConstant = TRUE, and a variable with no
\* marker within the two lines above it with isConstant = FALSE.
C24_ConstantFollowsMarker ==
  outcome.status = "ok" =>
    \A i \in 1..Len(ContentLines) :
      IsDeclarationLine(ContentLines, i) =>
        /\ RecordedAs(ContentLines[i]) # {}
        /\ \A v \in RecordedAs(ContentLines[i]) :
             outcome.unit.variables[v].isConstant = MarkerAbove(ContentLines, i)

\* The last declaration of a block that declares the name of its declaration d.
LastDeclared(block, d) ==
  block.decls[LastOf({e \in 1..Len(block.decls) : block.decls[e].name = block.decls[d].name}, d)]

\* C25: in the variables of every parsed unit no two entries of the same scope
\* section share a name: when a name is declared twice in a section, only the
\* last declaration is kept.
C25_NamesUniqueInSection ==
  outcome.status = "ok" =>
    /\ \A v, w \in 1..Len(outcome.unit.variables) :
         (/\ outcome.unit.variables[v].name = outcome.unit.variables[w].name
          /\ outcome.unit.variables[v].scope = outcome.unit.variables[w].scope) => v = w
    /\ \A b \in 1..Len(source.blocks) :
         \A d \in 1..Len(source.blocks[b].decls) :
           \A v \in 1..Len(outcome.unit.variables) :
             (/\ outcome.unit.variables[v].name = source.blocks[b].decls[d].name
              /\ outcome.unit.variables[v].scope = ExpectedScope(source.blocks[b].kw))
             => outcome.unit.variables[v].dataType = LastDeclared(source.blocks[b], d).type

(***************************************************************************)
(* Properties of the instances                                             *)
(***************************************************************************)

\* The declarations of the blocks of a text.
DeclarationsOf(blocks) ==
  UNION {SetOf(blocks[b].decls) : b \in 1..Len(blocks)}

\* The bindings the assignments of a body are to give: the name called and its
\* declared type, for the calls of a declared variable whose type is not a
\* primitive scalar type.
ExpectedInstances(blocks, body) ==
  {<<d.name, d.type>> :
     d \in {d \in DeclarationsOf(blocks) :
              /\ ToUpperCase(d.type) \notin {"BOOL", "INT", "DINT", "REAL", "STRING"}
              /\ \E k \in 1..Len(body) : AssignsCall(body[k]) /\ CalleeOf(body[k]) = d.name}}

\* C26: for every assignment whose right-hand side is a call n(...), n the name
\* of a declared variable whose type is not one of BOOL, INT, DINT, REAL, STRING,
\* the instances of the parsed unit contain the binding (n, declared type of n);
\* no binding is recorded for any other assignment.
C26_InstancesFollowCalls ==
  (outcome.status = "ok" /\ source.foot # "") =>
    {<<outcome.unit.instances[k].name, outcome.unit.instances[k].type>> :
       k \in 1..Len(outcome.unit.instances)}
      = ExpectedInstances(source.blocks, source.body)

(***************************************************************************)
(* Properties of preprocessContent                                         *)
(***************************************************************************)

\* A complete block comment begins at index k of t.
BlockCommentAt(t, k) == At(t, k, "(*") /\ IndexOf(t, "*)", k + 2) # 0

\* The text without its comments, read from left to right: a comment begins at //
\* and runs to the end of the line, or begins at (* and runs to the first *) after
\* it; marks that stand inside a comment begin nothing.
RECURSIVE Uncommented(_, _)
Uncommented(t, i) ==
  LET k == FirstOf({j \in i..Len(t) : At(t, j, "//") \/ BlockCommentAt(t, j)}, 0) IN
  IF k = 0 THEN Sub(t, i, Len(t))
  ELSE IF At(t, k, "//") THEN Sub(t, i, k - 1) \o Uncommented(t, LineEnd(t, k))
  ELSE Sub(t, i, k - 1) \o Uncommented(t, IndexOf(t, "*)", k + 2) + 2)

\* The characters of a text that are not white space.
RECURSIVE Squeezed(_, _)
Squeezed(t, i) ==
  IF i > Len(t) THEN ""
  ELSE (IF IsSpace(Ch(t, i)) THEN "" ELSE Ch(t, i)) \o Squeezed(t, i + 1)

\* A run of white space of t holds three line feeds: two blank lines or more.
HasBlankRun(t) ==
  \E i \in 1..Len(t) :
    /\ Ch(t, i) = "\n"
    /\ Cardinality({k \in i..(SkipSpace(t, i) - 1) : Ch(t, k) = "\n"}) >= 3

\* What the preprocessor gives for the text of the last call.
Preprocessed == preprocessContent(content)

\* C27: for every input text the preprocessor removes exactly the comments: its
\* output contains no // comment and no complete (* ... *) comment, no text
\* outside a comment is removed (white space apart), and no run of two or more
\* blank lines is left.
C27_PreprocessorRemovesComments ==
  outcome.status # "none" =>
    LET output == Preprocessed IN
    /\ ~Includes(output, "//")
    /\ \A k \in 1..Len(output) : ~BlockCommentAt(output, k)
    /\ Squeezed(output, 1) = Squeezed(Uncommented(content, 1), 1)
    /\ ~HasBlankRun(output)

(***************************************************************************)
(* Properties of the shape of the tree                                     *)
(***************************************************************************)

\* The lines of the body the tree is generated from.
BodyLines == Split(extractBody(Preprocessed), "\n")

\* C28: every tree returned by parse has a single synthetic root whose children
\* are the top-level statements in source order (strictly increasing line
\* numbers, each the number of a non-blank line of the body), every Literal node
\* and every Variable node has no children, and every descendant carries the line
\* number of the statement it belongs to.
C28_TreeShape ==
  outcome.status = "ok" =>
    LET body == BodyLines IN
    /\ outcome.unit.ast.type = "PROGRAM"
    /\ \A c \in 1..Len(RootChildren) :
         LET nodes == Flatten(RootChildren[c]) IN
         /\ RootChildren[c].lineNumber \in 1..Len(body)
         /\ Trim(body[RootChildren[c].lineNumber]) # ""
         /\ \A d \in 1..(c - 1) : RootChildren[d].lineNumber < RootChildren[c].lineNumber
         /\ \A k \in 1..Len(nodes) :
              /\ nodes[k].lineNumber = RootChildren[c].lineNumber
              /\ nodes[k].type \in {"LITERAL", "VARIABLE"} => nodes[k].children = <<>>

\* A tree with three statements, one of them the assignment of a binary
\* expression whose operands are leaves.
C28_Witness ==
  /\ source = ExpressionSource
  /\ outcome.status = "ok"
  /\ Len(RootChildren) >= 3
  /\ \E c \in 1..Len(RootChildren) :
       /\ RootChildren[c].lineNumber > 1
       /\ RootChildren[c].type = "ASSIGNMENT"
       /\ RootChildren[c].children[2].type = "BINARY_EXPRESSION"
       /\ Len(RootChildren[c].children[2].children) = 2
       /\ RootChildren[c].children[2].children[1].type = "VARIABLE"

(***************************************************************************)
(* Properties of the issue identifiers                                     *)
(***************************************************************************)

\* C29: within a single analyze result the issue ids are pairwise distinct, also
\* when several issues of the same pass (two orphaned dependencies, two division
\* warnings) are created within the same clock tick.
C29_IssueIdsDistinct ==
  analysis.status = "ok" =>
    \A i, j \in 1..Len(analysis.result.issues) :
      analysis.result.issues[i].id = analysis.result.issues[j].id => i = j

(***************************************************************************)
(* Properties of the parser's state                                        *)
(***************************************************************************)

\* What a parser just constructed returns or throws for the arguments of the
\* last call.
FreshOutcome ==
  LET r == parse(InitialContext, fileName, content) IN
  [status |-> r.status, error |-> r.error, unit |-> r.unit]

====
